---------------------------- MODULE Spec2Model ----------------------------
(***************************************************************************)
(* Real-time fuel optimisation session (fuel_opt/realtime_optimizer.py):  *)
(* the RealTimeOptimizer object, its monitoring loop and its optimisation *)
(* loop as concurrently running threads, and the session API              *)
(* (start/stop/pause/resume/add_alert_callback) called by a controller.   *)
(*                                                                         *)
(* Every loop thread of every start() is kept, because stop() joins with  *)
(* a timeout and abandons a thread that has not exited: mon[g] and opt[g] *)
(* are the threads created by the g-th effective start().                 *)
(*                                                                         *)
(* Quantities are integers: fuel in kg, power in tenths of full power,    *)
(* altitude in km, collision risk in units of 1e-7, temperature in K,     *)
(* time in ticks.                                                          *)
(***************************************************************************)
EXTENDS Integers, Sequences, FiniteSets, TLC

VARIABLES
    mission_requirements,         \* self.mission_requirements (fixed at construction)
    running,                      \* self.running
    paused,                       \* self.paused
    current_metrics,              \* self.current_metrics (NoMetrics = None)
    event_queue,                  \* self.event_queue (queue.Queue, FIFO)
    alert_callbacks,              \* self.alert_callbacks
    optimization_history,         \* self.optimization_history
    optimization_times,           \* self.optimization_times
    convergence_history,          \* self.convergence_history
    constraint_violation_history, \* self.constraint_violation_history
    mon,                          \* monitoring threads, one per start(); mon[g].calls
                                  \* are the callbacks invoked so far for mon[g].ev
    opt,                          \* optimisation threads, one per start()
    api,                          \* the controller: "ready" or "joining" (inside stop)
    cycle,                        \* number of monitoring bodies begun so far
    lib                           \* a call of a FuelOptimizer, PropulsionModel or
                                  \* TrajectoryOptimizer method outside a session:
                                  \* its arguments, locals and result

(* the state of the real-time session *)
session == <<mission_requirements, running, paused, current_metrics,
             event_queue, alert_callbacks, optimization_history,
             optimization_times, convergence_history,
             constraint_violation_history, mon, opt, api, cycle>>

vars == <<mission_requirements, running, paused, current_metrics, event_queue,
          alert_callbacks, optimization_history, optimization_times,
          convergence_history, constraint_violation_history,
          mon, opt, api, cycle, lib>>

-----------------------------------------------------------------------------
(* Bounds of the model *)

MaxRuns == 2          \* effective start() calls
MaxCycles == 2        \* monitoring bodies in total, alert specification
SessionCycles == 1    \* monitoring bodies in total, session specification
MaxAttempts == 2      \* optimisation attempts in total
MaxCallbacks == 2     \* registered alert callbacks
OptimizationInterval == 1   \* RealTimeConstraints.optimization_interval, in ticks

(* Program constants *)

MinFuelMass == 10             \* RealTimeConstraints.min_fuel_mass
MinPowerLevel == 2            \* RealTimeConstraints.min_power_level (0.2), tenths
AltitudeFloor == 100          \* _check_constraints: orbital_altitude < 100.0
MaxCollisionProbability == 10 \* RealTimeConstraints.max_collision_probability (1e-6), 1e-7 units
MaxTemperature == 323         \* RealTimeConstraints.max_temperature (323.15 K)
InitialPowerLevel == 10       \* start: current_power_level = 1.0, tenths
InitialTemperature == 293     \* start: temperature = 293.15
ViolationKinds == 6           \* _calculate_performance_score: len(violations) / 6.0

NoMetrics == [none |-> TRUE]

OptimizationStatus ==
    {"idle", "running", "converged", "failed", "constrained", "emergency"}

ConstraintViolation ==
    {"fuel_low", "power_low", "orbital_decay", "collision_risk",
     "thermal_limit", "communication_loss"}

(* The alert callbacks the controller may register: one that returns and  *)
(* one that raises an Exception.                                           *)
Callbacks == {"cb_ok", "cb_raise"}

(* MissionRequirements.__post_init__: the priorities the constructor       *)
(* accepts                                                                 *)
Priorities == {"fuel", "time", "mass", "balanced"}

(* mission_requirements values the constructor accepts.  max_mission_time *)
(* is not validated, so 0 is accepted; optimization_priority is left at    *)
(* the dataclass default.                                                  *)
MissionRequirementsSet ==
    [max_fuel_mass : {MinFuelMass}, max_mission_time : {0, 1},
     optimization_priority : {"fuel"}]

(* mission_requirements values over every accepted priority *)
PriorityRequirementsSet ==
    [max_fuel_mass : {MinFuelMass}, max_mission_time : {1},
     optimization_priority : Priorities]

(* Telemetry samples the metric update may produce.  Boundary sits on     *)
(* every threshold; the others move one or two quantities across it.      *)
Boundary ==
    [fuel |-> MinFuelMass, power |-> MinPowerLevel, altitude |-> AltitudeFloor,
     risk |-> MaxCollisionProbability, temperature |-> MaxTemperature]

Samples ==
    { Boundary,
      [Boundary EXCEPT !.fuel = MinFuelMass - 1],
      [Boundary EXCEPT !.power = MinPowerLevel - 1],
      [Boundary EXCEPT !.altitude = AltitudeFloor - 1],
      [Boundary EXCEPT !.risk = MaxCollisionProbability + 1],
      [Boundary EXCEPT !.temperature = MaxTemperature + 1],
      [Boundary EXCEPT !.fuel = MinFuelMass - 1,
                       !.temperature = MaxTemperature + 1] }

(* The samples of the session specification: nominal and low fuel *)
SessionSamples == {Boundary, [Boundary EXCEPT !.fuel = MinFuelMass - 1]}

InitialAltitudes == {AltitudeFloor}


-----------------------------------------------------------------------------
(* Pure helpers *)

AppendIf(s, cond, v) == IF cond THEN Append(s, v) ELSE s

CheckFuelOnly(m) == AppendIf(<< >>, m.fuel < MinFuelMass, "fuel_low")

(* _check_constraints, lines 274-294: the five independent checks, in the *)
(* order the code appends them.                                            *)
CheckViolations(m) ==
    AppendIf(
     AppendIf(
      AppendIf(
       AppendIf(
        AppendIf(<< >>, m.fuel < MinFuelMass, "fuel_low"),
        m.power < MinPowerLevel, "power_low"),
       m.altitude < AltitudeFloor, "orbital_decay"),
      m.risk > MaxCollisionProbability, "collision_risk"),
     m.temperature > MaxTemperature, "thermal_limit")

SeverityHighForFuelOnly(violation) ==
    IF violation = "fuel_low" THEN "high" ELSE "medium"

(* _check_constraints, line 303 *)
Severity(violation) ==
    IF violation \in {"fuel_low", "collision_risk"} THEN "high" ELSE "medium"

(* _get_violation_value *)
ViolationValue(m, violation) ==
    CASE violation = "fuel_low" -> m.fuel
      [] violation = "power_low" -> m.power
      [] violation = "orbital_decay" -> m.altitude
      [] violation = "collision_risk" -> m.risk
      [] violation = "thermal_limit" -> m.temperature
      [] OTHER -> 0

(* _check_constraints, lines 300-308: one OptimizationEvent per violation. *)
(* cycle stands for the event's timestamp.                                 *)
MakeEvent(m, violation, c) ==
    [cycle |-> c, violation |-> violation, severity |-> Severity(violation),
     value |-> ViolationValue(m, violation)]

EventsFor(m, violations, c) ==
    [k \in 1..Len(violations) |-> MakeEvent(m, violations[k], c)]

(* _handle_event, lines 429-434: what is stored of an event *)
HistoryEntry(event) ==
    [cycle |-> event.cycle, violation |-> event.violation,
     severity |-> event.severity]

(* start_real_time_optimization, lines 147-156 *)
InitialMetrics(alt) ==
    [fuel |-> mission_requirements.max_fuel_mass,
     power |-> InitialPowerLevel,
     altitude |-> alt,
     risk |-> 0,
     temperature |-> InitialTemperature,
     optimization_status |-> "idle",
     elapsed |-> 0,
     constraint_violations |-> << >>,
     performance_score |-> 0]

(* _should_optimize.  elapsed is now - last_optimization_time, saturating *)
(* at optimization_interval.                                               *)
ShouldOptimize ==
    IF current_metrics = NoMetrics THEN FALSE
    ELSE IF current_metrics.constraint_violations # << >> THEN TRUE
    ELSE current_metrics.elapsed >= OptimizationInterval

(* _run_optimization, line 365 *)
AttemptPriority ==
    IF current_metrics.constraint_violations # << >> THEN "fuel" ELSE "balanced"

(* What optimize_mission can do: raise, or return a trajectory whose      *)
(* total_time is a numpy float ("np": Hohmann, genetic search) or a Python *)
(* number ("py": the two-impulse fallback's 0.0, continuous thrust's       *)
(* 86400).                                                                 *)
Outcomes == {"raise", "np", "py"}

(* _calculate_performance_score, line 406: total_time / max_mission_time   *)
(* raises ZeroDivisionError for a Python number divided by 0.              *)
ScoreRaises(res) == res = "py" /\ mission_requirements.max_mission_time = 0

(* _calculate_performance_score, line 409: the constraint term, in sixths; *)
(* the fuel and time terms depend only on the result.                      *)
PerformanceScore(res) ==
    ViolationKinds - Len(current_metrics.constraint_violations)

(* _run_optimization, line 344 *)
StatusOnBegin == "running"

(* _run_optimization, line 374 *)
StatusOnSuccess == "converged"

StatusOnFailureEmergency == "emergency"

(* _run_optimization, line 393 *)
StatusOnFailure == "failed"

NoEvent == [none |-> TRUE]

NewMonitor == [pc |-> "m_loop", ev |-> NoEvent, i |-> 0, calls |-> << >>]

NewOptimizer == [pc |-> "o_loop", timer |-> 0, prio |-> "none"]

(* thread positions inside _run_optimization *)
InFlight == {"o_begin", "o_run", "o_store", "o_failed"}

(* attempts begun so far: the completed ones and those in flight *)
Attempts ==
    Len(convergence_history)
      + Cardinality({g \in 1..Len(opt) : opt[g].pc \in InFlight})

Min(a, b) == IF a < b THEN a ELSE b

-----------------------------------------------------------------------------
(* no library call is being followed *)
NoCall == [op |-> "none"]

InitWith(requirements) ==
    /\ lib = NoCall
    /\ mission_requirements \in requirements
    /\ running = FALSE
    /\ paused = FALSE
    /\ current_metrics = NoMetrics
    /\ event_queue = << >>
    /\ alert_callbacks = << >>
    /\ optimization_history = << >>
    /\ optimization_times = << >>
    /\ convergence_history = << >>
    /\ constraint_violation_history = << >>
    /\ mon = << >>
    /\ opt = << >>
    /\ api = "ready"
    /\ cycle = 0

Init == InitWith(MissionRequirementsSet)

InitPriority == InitWith(PriorityRequirementsSet)

-----------------------------------------------------------------------------
(* The session API, called by the controller *)

(* start_real_time_optimization *)
Start(alt) ==
    /\ api = "ready"
    /\ IF running
       THEN UNCHANGED vars
       ELSE /\ Len(mon) < MaxRuns
            /\ running' = TRUE
            /\ paused' = FALSE
            /\ current_metrics' = InitialMetrics(alt)
            /\ mon' = Append(mon, NewMonitor)
            /\ opt' = Append(opt, NewOptimizer)
            /\ UNCHANGED <<lib, mission_requirements, event_queue, alert_callbacks,
                           optimization_history, optimization_times,
                           convergence_history, constraint_violation_history,
                           api, cycle>>

(* stop_real_time_optimization, lines 169-170: the flags are cleared, then *)
(* the controller waits in join(timeout=5.0) for each loop thread.         *)
StopSignal ==
    /\ api = "ready"
    /\ running' = FALSE
    /\ paused' = FALSE
    /\ api' = "joining"
    /\ UNCHANGED <<lib, mission_requirements, current_metrics, event_queue,
                   alert_callbacks, optimization_history, optimization_times,
                   convergence_history, constraint_violation_history,
                   mon, opt, cycle>>

(* Positions a thread leaves within microseconds: straight-line code with  *)
(* no sleep, no call of optimize_mission and no alert callback.            *)
QuickSteps == {"m_body", "m_events", "o_begin", "o_store", "o_failed"}

(* stop_real_time_optimization, lines 172-177: join(timeout=5.0) on the    *)
(* optimisation thread, then on the monitoring thread, of the latest       *)
(* start().  Each join returns when its thread has ended or after 5 s, so  *)
(* on return the thread has ended or is asleep, inside optimize_mission or *)
(* inside an alert callback.  Threads of earlier starts are not joined.    *)
StopReturn ==
    /\ api = "joining"
    /\ mon # << >> => mon[Len(mon)].pc \notin QuickSteps
    /\ opt # << >> => opt[Len(opt)].pc \notin QuickSteps
    /\ api' = "ready"
    /\ UNCHANGED <<lib, mission_requirements, running, paused, current_metrics,
                   event_queue, alert_callbacks, optimization_history,
                   optimization_times, convergence_history,
                   constraint_violation_history, mon, opt, cycle>>

(* pause_optimization *)
Pause ==
    /\ api = "ready"
    /\ paused' = TRUE
    /\ UNCHANGED <<lib, mission_requirements, running, current_metrics, event_queue,
                   alert_callbacks, optimization_history, optimization_times,
                   convergence_history, constraint_violation_history,
                   mon, opt, api, cycle>>

(* resume_optimization *)
Resume ==
    /\ api = "ready"
    /\ paused' = FALSE
    /\ UNCHANGED <<lib, mission_requirements, running, current_metrics, event_queue,
                   alert_callbacks, optimization_history, optimization_times,
                   convergence_history, constraint_violation_history,
                   mon, opt, api, cycle>>

(* add_alert_callback *)
AddAlertCallback(cb) ==
    /\ api = "ready"
    /\ Len(alert_callbacks) < MaxCallbacks
    /\ alert_callbacks' = Append(alert_callbacks, cb)
    /\ UNCHANGED <<lib, mission_requirements, running, paused, current_metrics,
                   event_queue, optimization_history, optimization_times,
                   convergence_history, constraint_violation_history,
                   mon, opt, api, cycle>>

-----------------------------------------------------------------------------
(* The monitoring loop, thread g.  Positions: "m_loop" (sleeping, or at   *)
(* the while), "m_body" (in _update_current_metrics/_check_constraints),   *)
(* "m_events" (in _process_events), "m_callback" (in _handle_event's loop  *)
(* over the callbacks), "done" (the thread has ended).                     *)

GateIgnored == TRUE

(* the gate of both loops, lines 216 and 231: if not self.paused *)
GateOpen == ~paused

(* _monitoring_loop, lines 214-216 and 221: time.sleep returns, then       *)
(* while self.running / if not self.paused                                 *)
MonLoop(g, maxCycles) ==
    /\ mon[g].pc = "m_loop"
    /\ IF ~running
       THEN /\ mon' = [mon EXCEPT ![g].pc = "done"]
            /\ cycle' = cycle
       ELSE IF GateOpen
       THEN /\ cycle < maxCycles
            /\ cycle' = cycle + 1
            /\ mon' = [mon EXCEPT ![g].pc = "m_body"]
       ELSE UNCHANGED <<mon, cycle>>
    /\ UNCHANGED <<lib, mission_requirements, running, paused, current_metrics,
                   event_queue, alert_callbacks, optimization_history,
                   optimization_times, convergence_history,
                   constraint_violation_history, opt, api>>

(* _update_current_metrics: the five telemetry fields get new values *)
UpdatedMetrics(s) ==
    [current_metrics EXCEPT !.fuel = s.fuel, !.power = s.power,
                            !.altitude = s.altitude, !.risk = s.risk,
                            !.temperature = s.temperature]

(* _monitoring_loop, lines 217-218: _update_current_metrics, then          *)
(* _check_constraints on the updated metrics.  No other thread reads the   *)
(* telemetry fields in between, so the two calls are one step.             *)
MonBody(g, samples) ==
    /\ mon[g].pc = "m_body"
    /\ IF current_metrics = NoMetrics
       THEN UNCHANGED <<current_metrics, event_queue>>
       ELSE \E s \in samples :
              LET updated == UpdatedMetrics(s)
                  violations == CheckViolations(updated)
              IN /\ current_metrics' =
                      [updated EXCEPT !.constraint_violations = violations]
                 /\ event_queue' =
                      event_queue \o EventsFor(updated, violations, cycle)
    /\ mon' = [mon EXCEPT ![g].pc = "m_events"]
    /\ UNCHANGED <<lib, mission_requirements, running, paused, alert_callbacks,
                   optimization_history, optimization_times,
                   convergence_history, constraint_violation_history,
                   opt, api, cycle>>

(* _monitoring_loop, lines 223-225: an exception raised in the body is    *)
(* caught and logged; the loop sleeps 1.0 s and continues.                 *)
MonRaise(g) ==
    /\ mon[g].pc = "m_body"
    /\ mon' = [mon EXCEPT ![g].pc = "m_loop"]
    /\ UNCHANGED <<lib, mission_requirements, running, paused, current_metrics,
                   event_queue, alert_callbacks, optimization_history,
                   optimization_times, convergence_history,
                   constraint_violation_history, opt, api, cycle>>

(* _process_events, lines 416-419, and _handle_event, lines 426-434: the  *)
(* next event is taken from the queue and stored in the history; with the  *)
(* queue empty the body is over and the loop sleeps.                       *)
MonEvents(g) ==
    /\ mon[g].pc = "m_events"
    /\ IF event_queue = << >>
       THEN /\ mon' = [mon EXCEPT ![g].pc = "m_loop"]
            /\ UNCHANGED <<event_queue, constraint_violation_history>>
       ELSE /\ event_queue' = Tail(event_queue)
            /\ constraint_violation_history' =
                 Append(constraint_violation_history,
                        HistoryEntry(Head(event_queue)))
            /\ mon' = [mon EXCEPT ![g] = [pc |-> "m_callback",
                                          ev |-> Head(event_queue), i |-> 1,
                                          calls |-> << >>]]
    /\ UNCHANGED <<lib, mission_requirements, running, paused, current_metrics,
                   alert_callbacks, optimization_history, optimization_times,
                   convergence_history, opt, api, cycle>>

CallbackRaises(cb) == cb = "cb_raise"

AbortOnRaise(i, raised) ==
    IF raised THEN Len(alert_callbacks) + 1 ELSE i + 1

SkipAfterRaise(i, raised) == IF raised THEN i + 2 ELSE i + 1

(* _handle_event, lines 437-441: the index of the callback called after   *)
(* callback i; an exception of callback i is caught inside the for loop.   *)
NextCallback(i, raised) == i + 1

(* _handle_event, lines 437-441: one round of the loop over the callbacks *)
MonCallback(g) ==
    /\ mon[g].pc = "m_callback"
    /\ IF mon[g].i > Len(alert_callbacks)
       THEN mon' = [mon EXCEPT ![g] = [pc |-> "m_events", ev |-> NoEvent,
                                       i |-> 0, calls |-> << >>]]
       ELSE LET cb == alert_callbacks[mon[g].i]
            IN mon' = [mon EXCEPT
                         ![g].calls = Append(@, [callback |-> cb,
                                                 raised |-> CallbackRaises(cb)]),
                         ![g].i = NextCallback(mon[g].i, CallbackRaises(cb))]
    /\ UNCHANGED <<lib, mission_requirements, running, paused, current_metrics,
                   event_queue, alert_callbacks, optimization_history,
                   optimization_times, convergence_history,
                   constraint_violation_history, opt, api, cycle>>

-----------------------------------------------------------------------------
(* The optimisation loop, thread g.  Positions: "o_loop" (sleeping for    *)
(* timer more ticks, or at the while), "o_begin" (_run_optimization        *)
(* called), "o_run" (status is Running, optimize_mission computing),       *)
(* "o_store" (lines 379-390), "o_failed" (the except clause), "done".      *)

(* _optimization_loop, lines 229-234: time.sleep has returned, then        *)
(* while self.running / if not self.paused and self._should_optimize()     *)
OptLoop(g) ==
    /\ opt[g].pc = "o_loop"
    /\ opt[g].timer = 0
    /\ IF ~running
       THEN opt' = [opt EXCEPT ![g].pc = "done"]
       ELSE IF GateOpen /\ ShouldOptimize
       THEN /\ Attempts < MaxAttempts
            /\ opt' = [opt EXCEPT ![g].pc = "o_begin"]
       ELSE opt' = [opt EXCEPT ![g].timer = OptimizationInterval]
    /\ UNCHANGED <<lib, mission_requirements, running, paused, current_metrics,
                   event_queue, alert_callbacks, optimization_history,
                   optimization_times, convergence_history,
                   constraint_violation_history, mon, api, cycle>>

(* _run_optimization, lines 340-366: the status is set to Running and the *)
(* requirements are rebuilt from the current metrics                       *)
OptBegin(g) ==
    /\ opt[g].pc = "o_begin"
    /\ IF current_metrics = NoMetrics
       THEN /\ opt' = [opt EXCEPT ![g].pc = "o_loop",
                                  ![g].timer = OptimizationInterval]
            /\ current_metrics' = current_metrics
       ELSE /\ current_metrics' =
                 [current_metrics EXCEPT !.optimization_status = StatusOnBegin]
            /\ opt' = [opt EXCEPT ![g].pc = "o_run",
                                  ![g].prio = AttemptPriority]
    /\ UNCHANGED <<lib, mission_requirements, running, paused, event_queue,
                   alert_callbacks, optimization_history, optimization_times,
                   convergence_history, constraint_violation_history,
                   mon, api, cycle>>

(* _run_optimization, lines 369-376: optimize_mission ends.  If it raised, *)
(* the except clause is next; if it returned, the status is Converged and  *)
(* last_optimization_time is now before the performance score is computed, *)
(* which may raise in its turn.                                            *)
OptFinish(g) ==
    /\ opt[g].pc = "o_run"
    /\ \E res \in Outcomes :
         IF res = "raise"
         THEN /\ opt' = [opt EXCEPT ![g].pc = "o_failed"]
              /\ current_metrics' = current_metrics
         ELSE IF ScoreRaises(res)
         THEN /\ current_metrics' =
                   [current_metrics EXCEPT
                      !.optimization_status = StatusOnSuccess, !.elapsed = 0]
              /\ opt' = [opt EXCEPT ![g].pc = "o_failed"]
         ELSE /\ current_metrics' =
                   [current_metrics EXCEPT
                      !.optimization_status = StatusOnSuccess, !.elapsed = 0,
                      !.performance_score = PerformanceScore(res)]
              /\ opt' = [opt EXCEPT ![g].pc = "o_store"]
    /\ UNCHANGED <<lib, mission_requirements, running, paused, event_queue,
                   alert_callbacks, optimization_history, optimization_times,
                   convergence_history, constraint_violation_history,
                   mon, api, cycle>>

(* _run_optimization, lines 379-390, then line 234: the loop sleeps *)
OptStore(g) ==
    /\ opt[g].pc = "o_store"
    /\ optimization_history' =
         Append(optimization_history,
                [priority |-> opt[g].prio,
                 constraints_violated |->
                     Len(current_metrics.constraint_violations)])
    /\ optimization_times' = Append(optimization_times, "t")
    /\ convergence_history' = Append(convergence_history, TRUE)
    /\ opt' = [opt EXCEPT ![g] = [pc |-> "o_loop",
                                  timer |-> OptimizationInterval,
                                  prio |-> "none"]]
    /\ UNCHANGED <<lib, mission_requirements, running, paused, current_metrics,
                   event_queue, alert_callbacks, constraint_violation_history,
                   mon, api, cycle>>

(* _run_optimization, lines 392-395: except Exception; then line 234 *)
AfterFailureExit == "done"

(* _run_optimization returns to _optimization_loop after the except        *)
(* branch, line 236: the thread sleeps for the interval                    *)
AfterFailure == "o_loop"

OptFailed(g) ==
    /\ opt[g].pc = "o_failed"
    /\ current_metrics' =
         [current_metrics EXCEPT !.optimization_status = StatusOnFailure]
    /\ convergence_history' = Append(convergence_history, FALSE)
    /\ opt' = [opt EXCEPT ![g] = [pc |-> AfterFailure,
                                  timer |-> OptimizationInterval,
                                  prio |-> "none"]]
    /\ UNCHANGED <<lib, mission_requirements, running, paused, event_queue,
                   alert_callbacks, optimization_history, optimization_times,
                   constraint_violation_history, mon, api, cycle>>

(* One tick of time passes: datetime.now() advances against               *)
(* last_optimization_time, and the remaining sleep of every sleeping       *)
(* optimisation thread shrinks.                                            *)
Tick ==
    /\ current_metrics # NoMetrics
    /\ \/ current_metrics.elapsed < OptimizationInterval
       \/ \E g \in 1..Len(opt) : opt[g].timer > 0
    /\ current_metrics' =
         [current_metrics EXCEPT !.elapsed = Min(@ + 1, OptimizationInterval)]
    /\ opt' = [g \in 1..Len(opt) |->
                 IF opt[g].timer > 0
                 THEN [opt[g] EXCEPT !.timer = @ - 1]
                 ELSE opt[g]]
    /\ UNCHANGED <<lib, mission_requirements, running, paused, event_queue,
                   alert_callbacks, optimization_history, optimization_times,
                   convergence_history, constraint_violation_history,
                   mon, api, cycle>>

-----------------------------------------------------------------------------
(* The session: the controller's calls, both loops of every start(), and  *)
(* the passing of time.                                                    *)
Next ==
    \/ \E alt \in InitialAltitudes : Start(alt)
    \/ StopSignal
    \/ StopReturn
    \/ Pause
    \/ Resume
    \/ \E g \in 1..Len(mon) :
         \/ MonLoop(g, SessionCycles)
         \/ MonBody(g, SessionSamples)
         \/ MonRaise(g)
         \/ MonEvents(g)
         \/ MonCallback(g)
    \/ \E g \in 1..Len(opt) :
         \/ OptLoop(g)
         \/ OptBegin(g)
         \/ OptFinish(g)
         \/ OptStore(g)
         \/ OptFailed(g)
    \/ Tick

Spec == Init /\ [][Next]_vars

-----------------------------------------------------------------------------
(* Alerting: the controller's calls including add_alert_callback, and the *)
(* monitoring loops over every telemetry sample.  The optimisation loops   *)
(* are left at their start: none of their steps reads or writes the event  *)
(* queue, the callbacks, the violation history or a monitoring thread.     *)
NextAlerts ==
    \/ \E alt \in InitialAltitudes : Start(alt)
    \/ StopSignal
    \/ StopReturn
    \/ Pause
    \/ Resume
    \/ \E cb \in Callbacks : AddAlertCallback(cb)
    \/ \E g \in 1..Len(mon) :
         \/ MonLoop(g, MaxCycles)
         \/ MonBody(g, Samples)
         \/ MonRaise(g)
         \/ MonEvents(g)
         \/ MonCallback(g)

SpecAlerts == Init /\ [][NextAlerts]_vars

-----------------------------------------------------------------------------
(* The session under fair scheduling: every optimisation thread that can  *)
(* take a step eventually takes it (the operating system schedules every   *)
(* thread, and optimize_mission returns), and time passes.  Nothing is     *)
(* assumed of the controller or of the monitoring threads.                 *)
OptStep(g) ==
    /\ g \in 1..Len(opt)
    /\ \/ OptLoop(g)
       \/ OptBegin(g)
       \/ OptFinish(g)
       \/ OptStore(g)
       \/ OptFailed(g)

Fairness ==
    /\ \A g \in 1..MaxRuns : WF_vars(OptStep(g))
    /\ WF_vars(Tick)

LiveSpec == Init /\ [][Next]_vars /\ Fairness

(* One run of the session over every telemetry sample: start, pause and   *)
(* resume, both loops, and the passing of time.                            *)
NextChecks ==
    \/ \E alt \in InitialAltitudes : Start(alt)
    \/ Pause
    \/ Resume
    \/ \E g \in 1..Len(mon) :
         \/ MonLoop(g, MaxCycles)
         \/ MonBody(g, Samples)
         \/ MonRaise(g)
         \/ MonEvents(g)
         \/ MonCallback(g)
    \/ \E g \in 1..Len(opt) :
         \/ OptLoop(g)
         \/ OptBegin(g)
         \/ OptFinish(g)
         \/ OptStore(g)
         \/ OptFailed(g)
    \/ Tick

SpecChecks == Init /\ [][NextChecks]_vars

(* The session created with any accepted optimization_priority *)
SpecPriority == InitPriority /\ [][Next]_vars

-----------------------------------------------------------------------------
(* Observations used by the properties *)

(* optimization_status; a session that was never started counts as Idle *)
Status ==
    IF current_metrics = NoMetrics THEN "idle"
    ELSE current_metrics.optimization_status

(* stop_real_time_optimization has returned and start has not been called *)
(* since                                                                   *)
Stopped == api = "ready" /\ ~running /\ Len(mon) > 0

(* RealTimeMetrics apart from the age of last_optimization_time, which     *)
(* grows with time without being written                                   *)
MetricsData ==
    IF current_metrics = NoMetrics THEN current_metrics
    ELSE [current_metrics EXCEPT !.elapsed = 0]

Age == IF current_metrics = NoMetrics THEN 0 ELSE current_metrics.elapsed

ViolationsActive ==
    /\ current_metrics # NoMetrics
    /\ current_metrics.constraint_violations # << >>

-----------------------------------------------------------------------------
C2_NoTransitionWhilePaused ==
    [][(paused /\ paused') => Status' = Status]_vars

(* C3, as stated: after stop has returned, neither the metrics nor the     *)
(* histories are written again                                             *)
C3_NoUpdatesAfterStop ==
    [][(Stopped /\ Stopped') =>
          /\ MetricsData' = MetricsData
          /\ Age' >= Age
          /\ UNCHANGED <<optimization_history, optimization_times,
                         convergence_history, constraint_violation_history>>]_vars

(* C4, as stated: while a violation is active in a running, unpaused       *)
(* session, the optimisation loop of the current start() does not go on    *)
(* waiting out its sleep: no time passes on its remaining sleep            *)
C4_ImmediateOnViolation ==
    [][(running /\ ~paused /\ ViolationsActive /\ opt # << >>) =>
          ~(/\ opt[Len(opt)].pc = "o_loop"
            /\ opt[Len(opt)].timer > 0
            /\ opt'[Len(opt)].timer < opt[Len(opt)].timer)]_vars

(* C5, as stated: an attempt whose optimize_mission returned ends with     *)
(* status Converged, not Failed: with one optimisation thread, the except  *)
(* clause is never entered after the status was set to Converged           *)
C5_OriginalConvergedIfReturned ==
    (Len(opt) = 1 /\ opt[1].pc = "o_failed") => Status # "converged"

(* C6: a failed attempt does not end the session.  Under fair scheduling, *)
(* once the status is Failed after n attempts (n below the model's bound), *)
(* either a further attempt begins or the session stops being running and  *)
(* unpaused; an optimisation thread ends only after reading running =      *)
(* False, and an exception in the monitoring body returns the monitoring   *)
(* thread to its loop.                                                     *)
C6_FailureNotFatal ==
    /\ \A n \in 0..(MaxAttempts - 1) :
         (Status = "failed" /\ running /\ ~paused /\ Attempts = n)
            ~> (Attempts > n \/ ~running \/ paused)
    /\ [][\A g \in 1..Len(opt) :
            (opt[g].pc # "done" /\ opt'[g].pc = "done") =>
               (~running /\ opt[g].pc = "o_loop")]_vars
    /\ [][\A g \in 1..Len(mon) :
            (mon[g].pc = "m_body" /\ mon'[g].pc \notin {"m_body", "m_events"}) =>
               mon'[g].pc = "m_loop"]_vars

(* C6 witness: the session is running and unpaused after a failed attempt, *)
(* its optimisation thread asleep                                          *)
C6_Witness ==
    /\ Status = "failed"
    /\ running /\ ~paused
    /\ Attempts = 1
    /\ opt[Len(opt)].pc = "o_loop"

(* C7, as stated: the monitoring loop is never in its metric-update and    *)
(* constraint-check step while an optimisation loop is inside an attempt   *)
C7_MutualExclusion ==
    ~ \E g \in 1..Len(mon), h \in 1..Len(opt) :
         /\ mon[g].pc = "m_body"
         /\ opt[h].pc \in {"o_run", "o_store", "o_failed"}

-----------------------------------------------------------------------------
(* Observations on the event queue *)

(* the events a step has put on the queue *)
Enqueued == SubSeq(event_queue', Len(event_queue) + 1, Len(event_queue'))

CountIn(seq, x) == Cardinality({k \in 1..Len(seq) : seq[k] = x})

(* C8: a constraint-check cycle puts on the queue exactly one event per    *)
(* violation it found, in order, behind the events already queued, with    *)
(* severity "high" for fuel_low and collision_risk and "medium" for the    *)
(* others; when the fuel is below min_fuel_mass, fuel_low is among the     *)
(* violations and has exactly one event, of severity "high".               *)
C8_OneEventPerViolation ==
    [][\A g \in 1..Len(mon) :
         (mon[g].pc = "m_body" /\ mon'[g].pc = "m_events") =>
            LET found == current_metrics'.constraint_violations
            IN /\ Len(event_queue') = Len(event_queue) + Len(found)
               /\ SubSeq(event_queue', 1, Len(event_queue)) = event_queue
               /\ \A k \in 1..Len(found) :
                    /\ Enqueued[k].violation = found[k]
                    /\ CountIn(found, found[k]) = 1
                    /\ found[k] \in {"fuel_low", "collision_risk"}
                         => Enqueued[k].severity = "high"
                    /\ found[k] \in {"power_low", "orbital_decay", "thermal_limit"}
                         => Enqueued[k].severity = "medium"
               /\ current_metrics'.fuel < MinFuelMass =>
                    Cardinality({k \in 1..Len(Enqueued) :
                                   /\ Enqueued[k].violation = "fuel_low"
                                   /\ Enqueued[k].severity = "high"}) = 1]_vars

(* C8 witness: a cycle found low fuel and a thermal violation and queued a *)
(* high and a medium event                                                 *)
C8_Witness ==
    /\ Len(event_queue) = 2
    /\ event_queue[1].violation = "fuel_low" /\ event_queue[1].severity = "high"
    /\ event_queue[2].violation = "thermal_limit"
    /\ event_queue[2].severity = "medium"
    /\ \E g \in 1..Len(mon) : mon[g].pc = "m_events"

(* C9: the queue shrinks only when a monitoring thread in _process_events  *)
(* takes its head, and that step appends the event to the violation        *)
(* history; the history grows only in such a step, by that one entry; and  *)
(* when a thread is through with an event, the callbacks it invoked for it *)
(* are exactly the registered ones, each once, in registration order.      *)
C9_EachEventOnce ==
    /\ [][Len(event_queue') < Len(event_queue) =>
            /\ event_queue' = Tail(event_queue)
            /\ constraint_violation_history' =
                 Append(constraint_violation_history,
                        [cycle |-> Head(event_queue).cycle,
                         violation |-> Head(event_queue).violation,
                         severity |-> Head(event_queue).severity])
            /\ \E g \in 1..Len(mon) :
                 /\ mon[g].pc = "m_events"
                 /\ mon'[g].pc = "m_callback"
                 /\ mon'[g].ev = Head(event_queue)]_vars
    /\ [][constraint_violation_history' # constraint_violation_history =>
            /\ event_queue # << >>
            /\ event_queue' = Tail(event_queue)
            /\ Len(constraint_violation_history') =
                 Len(constraint_violation_history) + 1]_vars
    /\ [][\A g \in 1..Len(mon) :
            (mon[g].pc = "m_callback" /\ mon'[g].pc # "m_callback") =>
               /\ Len(mon[g].calls) = Len(alert_callbacks)
               /\ \A k \in 1..Len(alert_callbacks) :
                    mon[g].calls[k].callback = alert_callbacks[k]]_vars

(* C9 witness: an event has been delivered to two registered callbacks *)
C9_Witness ==
    \E g \in 1..Len(mon) :
       /\ mon[g].pc = "m_callback"
       /\ Len(alert_callbacks) = 2
       /\ Len(mon[g].calls) = 2
       /\ Len(constraint_violation_history) >= 1

(* C10: when a callback raises, the thread goes on to the next registered  *)
(* callback for the same event and the queue is left as it is; after the   *)
(* last callback the thread is back in _process_events; and a monitoring   *)
(* thread never ends while it handles an event.                            *)
C10_CallbackIsolated ==
    /\ [][\A g \in 1..Len(mon) :
            (/\ mon[g].pc = "m_callback"
             /\ Len(mon'[g].calls) = Len(mon[g].calls) + 1
             /\ mon'[g].calls[Len(mon'[g].calls)].raised) =>
               /\ mon'[g].pc = "m_callback"
               /\ mon'[g].ev = mon[g].ev
               /\ mon'[g].i = mon[g].i + 1
               /\ event_queue' = event_queue]_vars
    /\ [][\A g \in 1..Len(mon) :
            (mon[g].pc = "m_callback" /\ mon'[g].pc # "m_callback") =>
               /\ mon'[g].pc = "m_events"
               /\ mon[g].i = Len(alert_callbacks) + 1]_vars

(* C10 witness: for one event, a callback raised and the callback          *)
(* registered after it was invoked all the same, with an event still       *)
(* queued                                                                  *)
C10_Witness ==
    \E g \in 1..Len(mon) :
       /\ mon[g].pc = "m_callback"
       /\ Len(mon[g].calls) = 2
       /\ mon[g].calls[1].raised
       /\ ~mon[g].calls[2].raised
       /\ event_queue # << >>

-----------------------------------------------------------------------------
(* PropulsionModel (fuel_models.py).  Masses are in tenths of a kilogram,  *)
(* power in watts, burn times in seconds, efficiencies in hundredths,      *)
(* scores in thousandths.                                                  *)

(* _initialize_propulsion_systems: the catalog, in insertion order *)
Catalog ==
    << [name |-> "monopropellant", dry_mass |-> 25, fuel_mass |-> 100,
        power_consumption |-> 0, efficiency |-> 95],
       [name |-> "bipropellant", dry_mass |-> 80, fuel_mass |-> 250,
        power_consumption |-> 0, efficiency |-> 98],
       [name |-> "ion_thruster", dry_mass |-> 150, fuel_mass |-> 50,
        power_consumption |-> 4500, efficiency |-> 65],
       [name |-> "hall_thruster", dry_mass |-> 80, fuel_mass |-> 30,
        power_consumption |-> 1350, efficiency |-> 55] >>

(* What calculate_fuel_consumption can do for one system: raise, return a  *)
(* consumption whose numbers are NaN (a NaN delta_v or mass), or return    *)
(* finite fuel_mass and burn_time.                                         *)
Consumptions ==
    {[kind |-> "raise", fuel_mass |-> 0, burn_time |-> 0],
     [kind |-> "nan", fuel_mass |-> 0, burn_time |-> 0]}
      \cup [kind : {"ok"}, fuel_mass : {5, 20}, burn_time : {0, 10}]

ConstraintKeys ==
    {"max_total_mass", "max_power", "max_burn_time", "max_fuel_mass"}

(* The constraint dictionaries of the calls followed: any subset of the    *)
(* four keys, with a mass, a fuel and a burn-time limit between the        *)
(* consumptions above and a power limit above, between and below the       *)
(* catalog's power draws.                                                  *)
ConstraintSets ==
    [keys : SUBSET ConstraintKeys, max_total_mass : {140},
     max_power : {-1, 2000, 5000}, max_burn_time : {5}, max_fuel_mass : {10}]

ExceedsNothing(consumption, x, limit) == FALSE

(* x > limit in Python floats: False when x is NaN *)
Exceeds(consumption, x, limit) == consumption.kind # "nan" /\ x > limit

(* _check_constraints, line 225: the power limit is applied to a system    *)
(* that draws power                                                        *)
PowerChecked(system) == system.power_consumption > 0

(* PropulsionModel._check_constraints *)
CheckConstraints(system, consumption, constraints) ==
    /\ "max_total_mass" \in constraints.keys =>
         ~Exceeds(consumption,
                  system.dry_mass + system.fuel_mass + consumption.fuel_mass,
                  constraints.max_total_mass)
    /\ ("max_power" \in constraints.keys /\ PowerChecked(system)) =>
         ~(system.power_consumption > constraints.max_power)
    /\ "max_burn_time" \in constraints.keys =>
         ~Exceeds(consumption, consumption.burn_time,
                  constraints.max_burn_time)
    /\ "max_fuel_mass" \in constraints.keys =>
         ~Exceeds(consumption, consumption.fuel_mass,
                  constraints.max_fuel_mass)

(* _calculate_system_score with the default weights 1.0, 0.1, 0.01, 0.5 *)
SystemScore(system, consumption) ==
    100 * (system.dry_mass + consumption.fuel_mass)
      + 100 * system.power_consumption
      + 10 * consumption.burn_time
      - 5 * system.efficiency

(* calculate_optimal_propulsion is called: lines 187-189 *)
PropulsionCalls ==
    [op : {"calculate_optimal_propulsion"}, pc : {"loop"},
     constraints : ConstraintSets,
     consumption : [1..Len(Catalog) -> Consumptions],
     i : {1}, best : {0}, best_score : {0}]

InitPropulsion ==
    /\ lib \in PropulsionCalls
    /\ mission_requirements \in {CHOOSE r \in MissionRequirementsSet : TRUE}
    /\ running = FALSE
    /\ paused = FALSE
    /\ current_metrics = NoMetrics
    /\ event_queue = << >>
    /\ alert_callbacks = << >>
    /\ optimization_history = << >>
    /\ optimization_times = << >>
    /\ convergence_history = << >>
    /\ constraint_violation_history = << >>
    /\ mon = << >>
    /\ opt = << >>
    /\ api = "ready"
    /\ cycle = 0

(* calculate_optimal_propulsion, lines 191-207: one system of the loop.    *)
(* best = 0 is best_system None, best_score then float('inf'); a NaN score *)
(* is below nothing.                                                       *)
PropulsionStep ==
    /\ lib.op = "calculate_optimal_propulsion"
    /\ lib.pc = "loop"
    /\ lib.i <= Len(Catalog)
    /\ LET system == Catalog[lib.i]
           consumption == lib.consumption[lib.i]
           score == SystemScore(system, consumption)
       IN IF \/ consumption.kind = "raise"
             \/ ~CheckConstraints(system, consumption, lib.constraints)
             \/ consumption.kind = "nan"
             \/ ~(lib.best = 0 \/ score < lib.best_score)
          THEN lib' = [lib EXCEPT !.i = @ + 1]
          ELSE lib' = [lib EXCEPT !.i = @ + 1, !.best = lib.i,
                                  !.best_score = score]
    /\ UNCHANGED session

(* calculate_optimal_propulsion, lines 209-212 *)
PropulsionReturn ==
    /\ lib.op = "calculate_optimal_propulsion"
    /\ lib.pc = "loop"
    /\ lib.i > Len(Catalog)
    /\ lib' = [lib EXCEPT !.pc = IF lib.best = 0 THEN "raised" ELSE "returned"]
    /\ UNCHANGED session

NextPropulsion == PropulsionStep \/ PropulsionReturn

SpecPropulsion == InitPropulsion /\ [][NextPropulsion]_vars

-----------------------------------------------------------------------------
(* FuelOptimizer.optimize_mission (fuel_optimizer.py).  Fuel is in         *)
(* kilograms, time in hundredths of a day (864 s), balanced scores in      *)
(* thousandths.                                                            *)

DefaultMaxImpulses == 5       \* default_constraints['max_impulses']
BalancedMaxImpulses == 3      \* _optimize_balanced: max_impulses=3
HohmannSegments == 2          \* optimize_hohmann_transfer: [segment1, segment2]
GradientSegments == 20        \* _gradient_optimization: num_segments
GradientTime == 100           \* max_time 86400 s

NoTrajectory == [kind |-> "none", method |-> "none", fuel |-> 0, time |-> 0,
                 segments |-> 0]

Raised == [kind |-> "raise", method |-> "none", fuel |-> 0, time |-> 0,
           segments |-> 0]

(* What each strategy can do for the states and the propulsion system of   *)
(* one call: raise, or return a trajectory with finite totals.  Each is a  *)
(* computation without state or randomness in its result's totals, so it   *)
(* does the same every time it is invoked within the call.                 *)
HohmannOutcomes ==
    {Raised} \cup [kind : {"ok"}, method : {"Hohmann Transfer"},
                   fuel : {0, 300}, time : {50}, segments : {HohmannSegments}]

(* optimize_multi_impulse_trajectory ends in _simple_two_impulse_transfer: *)
(* one segment, total_time 0.0                                             *)
MultiImpulseOutcomes ==
    {Raised} \cup [kind : {"ok"}, method : {"Simple Two-Impulse"},
                   fuel : {0, 300}, time : {0}, segments : {1}]

GradientOutcomes ==
    {Raised} \cup [kind : {"ok"}, method : {"Gradient Optimization"},
                   fuel : {0, 300}, time : {GradientTime},
                   segments : {GradientSegments}]

(* _calculate_balanced_score: 0.4 fuel/100 + 0.3 time/86400 + 0.3 n/10 *)
BalancedScore(trajectory) ==
    4 * trajectory.fuel + 3 * trajectory.time + 30 * trajectory.segments

(* the strategies _optimize_balanced tries, in order (lines 311-323) *)
BalancedMethods ==
    << [method |-> "hohmann", max_impulses |-> 0],
       [method |-> "multi_impulse", max_impulses |-> BalancedMaxImpulses],
       [method |-> "continuous_thrust", max_impulses |-> 0] >>

(* the trajectory a strategy call yields in the call followed *)
Invoke(call) ==
    CASE call.method = "hohmann" -> lib.hohmann
      [] call.method = "multi_impulse" -> lib.multi_impulse
      [] call.method = "continuous_thrust" -> lib.continuous_thrust

MissionCalls ==
    [op : {"optimize_mission"}, pc : {"propulsion"},
     priority : Priorities,
     propulsion : {"ok", "raise"},
     hohmann : HohmannOutcomes,
     multi_impulse : MultiImpulseOutcomes,
     continuous_thrust : GradientOutcomes,
     calls : {<< >>}, i : {1}, best : {NoTrajectory}, result : {NoTrajectory}]

InitMission ==
    /\ lib \in MissionCalls
    /\ mission_requirements \in {CHOOSE r \in MissionRequirementsSet : TRUE}
    /\ running = FALSE
    /\ paused = FALSE
    /\ current_metrics = NoMetrics
    /\ event_queue = << >>
    /\ alert_callbacks = << >>
    /\ optimization_history = << >>
    /\ optimization_times = << >>
    /\ convergence_history = << >>
    /\ constraint_violation_history = << >>
    /\ mon = << >>
    /\ opt = << >>
    /\ api = "ready"
    /\ cycle = 0

(* optimize_mission, lines 92-95: calculate_optimal_propulsion returns or  *)
(* raises ValueError, which leaves optimize_mission                        *)
MissionPropulsion ==
    /\ lib.op = "optimize_mission"
    /\ lib.pc = "propulsion"
    /\ lib' = IF lib.propulsion = "raise"
              THEN [lib EXCEPT !.pc = "raised", !.result = Raised]
              ELSE [lib EXCEPT !.pc = "dispatch"]
    /\ UNCHANGED session

AlwaysHohmann(priority) == [method |-> "hohmann", max_impulses |-> 0]

(* the single strategy of a priority other than balanced, lines 98-109 and *)
(* 271-303                                                                 *)
SingleStrategy(priority) ==
    CASE priority = "fuel" ->
           [method |-> "multi_impulse", max_impulses |-> DefaultMaxImpulses]
      [] priority = "time" -> [method |-> "hohmann", max_impulses |-> 0]
      [] priority = "mass" ->
           [method |-> "continuous_thrust", max_impulses |-> 0]

(* optimize_mission, lines 98-114: the dispatch on optimization_priority.  *)
(* An exception of the single strategy leaves optimize_mission.            *)
MissionDispatch ==
    /\ lib.op = "optimize_mission"
    /\ lib.pc = "dispatch"
    /\ IF lib.priority \in {"fuel", "time", "mass"}
       THEN LET call == SingleStrategy(lib.priority)
                trajectory == Invoke(call)
            IN lib' = [lib EXCEPT
                         !.calls = Append(@, call),
                         !.result = trajectory,
                         !.pc = IF trajectory.kind = "raise" THEN "raised"
                                ELSE "returned"]
       ELSE lib' = [lib EXCEPT !.pc = "balanced"]
    /\ UNCHANGED session

(* _optimize_balanced, lines 328-338: one method of the loop *)
BalancedStep ==
    /\ lib.op = "optimize_mission"
    /\ lib.pc = "balanced"
    /\ lib.i <= Len(BalancedMethods)
    /\ LET call == BalancedMethods[lib.i]
           trajectory == Invoke(call)
       IN lib' = [lib EXCEPT
                    !.calls = Append(@, call),
                    !.i = @ + 1,
                    !.best =
                       IF /\ trajectory.kind = "ok"
                          /\ \/ lib.best.kind = "none"
                             \/ BalancedScore(trajectory)
                                  < BalancedScore(lib.best)
                       THEN trajectory ELSE @]
    /\ UNCHANGED session

(* _optimize_balanced, lines 340-347: the fallback and the return *)
BalancedReturn ==
    /\ lib.op = "optimize_mission"
    /\ lib.pc = "balanced"
    /\ lib.i > Len(BalancedMethods)
    /\ IF lib.best.kind = "none"
       THEN LET call == BalancedMethods[1]
                trajectory == Invoke(call)
            IN lib' = [lib EXCEPT
                         !.calls = Append(@, call),
                         !.result = trajectory,
                         !.pc = IF trajectory.kind = "raise" THEN "raised"
                                ELSE "returned"]
       ELSE lib' = [lib EXCEPT !.result = lib.best, !.pc = "returned"]
    /\ UNCHANGED session

NextMission ==
    \/ MissionPropulsion
    \/ MissionDispatch
    \/ BalancedStep
    \/ BalancedReturn

SpecMission == InitMission /\ [][NextMission]_vars

(* C11, as stated: the requirements an attempt builds carry priority      *)
(* "fuel" while a violation is active and otherwise the priority the       *)
(* session was created with                                                *)
C11_AttemptPriority ==
    [][\A g \in 1..Len(opt) :
         (opt[g].pc = "o_begin" /\ opt'[g].pc = "o_run") =>
            opt'[g].prio =
               (IF current_metrics.constraint_violations # << >>
                THEN "fuel"
                ELSE mission_requirements.optimization_priority)]_vars

(* C12: pause is a soft gate.  A loop thread at the head of an iteration   *)
(* while paused holds does not enter its body (monitoring: no update, no   *)
(* check, no event processing; optimisation: no attempt) and ends only if  *)
(* running is False; while running and not paused, the iteration a thread  *)
(* begins enters the body (the optimisation loop's when an attempt is      *)
(* due); and a step that changes paused without changing running, which is *)
(* what pause and resume are, leaves every loop thread as it is.           *)
C12_PauseSoftGate ==
    /\ [][\A g \in 1..Len(mon) :
            (paused /\ mon[g].pc = "m_loop") =>
               /\ mon'[g].pc \in {"m_loop", "done"}
               /\ mon'[g].pc = "done" => ~running]_vars
    /\ [][\A g \in 1..Len(opt) :
            (paused /\ opt[g].pc = "o_loop") =>
               /\ opt'[g].pc \in {"o_loop", "done"}
               /\ opt'[g].pc = "done" => ~running]_vars
    /\ [][\A g \in 1..Len(mon) :
            (running /\ ~paused /\ mon[g].pc = "m_loop" /\ mon'[g] # mon[g]) =>
               mon'[g].pc = "m_body"]_vars
    /\ [][\A g \in 1..Len(opt) :
            (/\ running /\ ~paused /\ ShouldOptimize
             /\ opt[g].pc = "o_loop" /\ opt[g].timer = 0
             /\ opt'[g] # opt[g]) =>
               opt'[g].pc = "o_begin"]_vars
    /\ [][(paused' # paused /\ running' = running) =>
            UNCHANGED <<mon, opt>>]_vars

(* C12 witness: the optimisation thread of a running, paused session has   *)
(* just gone back to sleep without an attempt although one was due         *)
C12_Witness ==
    /\ Len(opt) = 1
    /\ running /\ paused
    /\ opt[1].pc = "o_loop"
    /\ opt[1].timer = OptimizationInterval
    /\ Age = OptimizationInterval
    /\ Attempts = 0

(* C13, as stated, at the scale of the model: the histories stay within a  *)
(* bound that does not grow with the number of attempts, so with           *)
(* MaxAttempts attempts allowed the history of results and the            *)
(* per-attempt tracking lists hold fewer than MaxAttempts entries          *)
C13_HistoriesBounded ==
    /\ Len(optimization_history) < MaxAttempts
    /\ Len(optimization_times) < MaxAttempts
    /\ Len(convergence_history) < MaxAttempts

(* the system and the consumption calculate_optimal_propulsion returned *)
Returned == lib.op = "calculate_optimal_propulsion" /\ lib.pc = "returned"

BestSystem == Catalog[lib.best]

BestConsumption == lib.consumption[lib.best]

-----------------------------------------------------------------------------
(* TrajectoryOptimizer (trajectory_optimizer.py) and the fuel model it     *)
(* calls.  Delta-v is in km/s, mass in kilograms, time in seconds.         *)

DeltaVs == {-1, 0, 1, 2}

(* 1 - exp(-delta_v / (Isp g0)) in tenths, for three propulsion systems:   *)
(* a type that is neither chemical nor electric (fuel_mass = 0.0), a       *)
(* chemical system, and one with an exhaust velocity so low that exp()     *)
(* underflows to 0 for a positive delta-v                                  *)
Fractions ==
    { [dv \in DeltaVs |-> 0],
      [dv \in DeltaVs |-> CASE dv = -1 -> -4 [] dv = 0 -> 0
                            [] dv = 1 -> 3 [] dv = 2 -> 5],
      [dv \in DeltaVs |-> CASE dv = -1 -> -20 [] dv = 0 -> 0
                            [] dv = 1 -> 10 [] dv = 2 -> 10] }

(* the systems a call can be given: one whose consumption is computed, one *)
(* for which calculate_fuel_consumption raises (thrust 0.0)                *)
Systems == [kind : {"ok"}, fraction : Fractions]
             \cup [kind : {"raise"}, fraction : {[dv \in DeltaVs |-> 0]}]

(* the None that _individual_to_trajectory passes as propulsion system *)
NoneSystem == [kind |-> "None", fraction |-> [dv \in DeltaVs |-> 0]]

ConsumptionRaised == [kind |-> "raise", fuel_mass |-> 0]

(* calculate_fuel_consumption: reading propulsion_type of None raises      *)
(* AttributeError; otherwise fuel_mass = satellite_mass * fraction         *)
CalculateFuelConsumption(system, delta_v, satellite_mass) ==
    IF system.kind # "ok" THEN ConsumptionRaised
    ELSE [kind |-> "ok",
          fuel_mass |-> (satellite_mass * system.fraction[delta_v]) \div 10]

AssumedMass == 1000           \* the mass every strategy assumes
ImpulseScale == 3600          \* times[i] * 3600
FinalCoast == 3600            \* final_coast_time

Segment(start, end, dv, fuel) ==
    [start_time |-> start, end_time |-> end, delta_v |-> dv,
     fuel_consumption |-> fuel]

None == [kind |-> "none", method |-> "none", segments |-> << >>,
         total_delta_v |-> 0, total_fuel_consumption |-> 0, total_time |-> 0]

Raise == [kind |-> "raise", method |-> "none", segments |-> << >>,
          total_delta_v |-> 0, total_fuel_consumption |-> 0, total_time |-> 0]

TotalsLeftZero(segs, dv, fuel, time, name) ==
    [kind |-> "ok", method |-> name, segments |-> segs,
     total_delta_v |-> 0, total_fuel_consumption |-> 0, total_time |-> 0]

OptimizedTrajectory(segs, dv, fuel, time, name) ==
    [kind |-> "ok", method |-> name, segments |-> segs,
     total_delta_v |-> dv, total_fuel_consumption |-> fuel,
     total_time |-> time]

(* optimize_hohmann_transfer, lines 77-123, for the delta_v1, delta_v2 and *)
(* transfer_time of calculate_hohmann_transfer, whose total_delta_v is     *)
(* delta_v1 + delta_v2                                                     *)
HohmannTransfer(system, delta_v1, delta_v2, transfer_time) ==
    LET consumption1 == CalculateFuelConsumption(system, delta_v1, AssumedMass)
        mass_after_burn1 == AssumedMass - consumption1.fuel_mass
        consumption2 ==
            CalculateFuelConsumption(system, delta_v2, mass_after_burn1)
    IN IF consumption1.kind = "raise" \/ consumption2.kind = "raise"
       THEN Raise
       ELSE OptimizedTrajectory(
              << Segment(0, 0, delta_v1, consumption1.fuel_mass),
                 Segment(transfer_time, transfer_time, delta_v2,
                         consumption2.fuel_mass) >>,
              delta_v1 + delta_v2,
              consumption1.fuel_mass + consumption2.fuel_mass,
              transfer_time, "Hohmann Transfer")

NoFallback(system, delta_v1) == None

(* _simple_two_impulse_transfer, lines 412-442 *)
SimpleTwoImpulseTransfer(system, delta_v1) ==
    LET consumption == CalculateFuelConsumption(system, delta_v1, AssumedMass)
    IN IF consumption.kind = "raise" THEN Raise
       ELSE OptimizedTrajectory(
              << Segment(0, 0, delta_v1, consumption.fuel_mass) >>,
              delta_v1, consumption.fuel_mass, 0, "Simple Two-Impulse")

(* an individual is a sequence of num_impulses times followed by           *)
(* num_impulses magnitudes, each 0 or 1                                    *)
Genes == {0, 1}

RECURSIVE DecodeFrom(_, _, _, _, _)
(* _individual_to_trajectory, lines 368-394: the loop from impulse i on,   *)
(* with the segments and totals so far; an exception gives None            *)
DecodeFrom(individual, i, segs, total_delta_v, total_fuel) ==
    LET num_impulses == Len(individual) \div 2
    IN IF i > num_impulses
       THEN OptimizedTrajectory(segs, total_delta_v, total_fuel,
                                individual[num_impulses] * ImpulseScale
                                  + FinalCoast,
                                "Genetic Algorithm")
       ELSE LET impulse_time == individual[i] * ImpulseScale
                delta_v == individual[num_impulses + i] * 1
                consumption ==
                    CalculateFuelConsumption(NoneSystem, delta_v, AssumedMass)
            IN IF consumption.kind = "raise" THEN None
               ELSE DecodeFrom(individual, i + 1,
                               Append(segs, Segment(impulse_time, impulse_time,
                                              delta_v, consumption.fuel_mass)),
                               total_delta_v + delta_v,
                               total_fuel + consumption.fuel_mass)

IndividualToTrajectory(individual) == DecodeFrom(individual, 1, << >>, 0, 0)

Inf == 1000000000             \* float('inf')

(* fitness_function, lines 176-197, in hundredths *)
Fitness(individual, time_constraint) ==
    LET trajectory == IndividualToTrajectory(individual)
    IN IF trajectory.kind = "none" THEN Inf
       ELSE IF time_constraint # 0 /\ trajectory.total_time > time_constraint
       THEN Inf
       ELSE 100 * trajectory.total_fuel_consumption
              + 10 * trajectory.total_time + Len(trajectory.segments)

PopulationSize == 3           \* population_size, scaled down
MaxIterations == 3            \* max_iterations, scaled down
StallLimit == 1               \* generations_without_improvement > 50
TournamentSize == 3           \* tournament_size
MaxImpulses == 2              \* max_impulses of the calls followed
NumSegments == 3              \* num_segments, scaled down

InitialMagnitudes == {1}

Individuals(num_impulses) == [1..(2 * num_impulses) -> Genes]

(* _initialize_population, lines 303-311: 1 to max_impulses impulses, the  *)
(* times sorted                                                            *)
InitialIndividuals(max_impulses) ==
    UNION { { individual \in Individuals(n) :
                /\ \A a, b \in 1..n : a < b => individual[a] <= individual[b]
                /\ \A a \in (n + 1)..(2 * n) :
                     individual[a] \in InitialMagnitudes } :
            n \in 1..max_impulses }

(* _tournament_selection, lines 315-322: the members that can win a        *)
(* tournament of tournament_size distinct members drawn in random order    *)
TournamentSelection(population, fitness_scores) ==
    { population[k] : k \in
        { w \in 1..Len(population) :
            \E tournament \in SUBSET (1..Len(population)) :
               /\ Cardinality(tournament) = TournamentSize
               /\ w \in tournament
               /\ \A j \in tournament :
                    fitness_scores[w] <= fitness_scores[j] } }

CrossoverUntruncated(parent1, parent2, crossover_point) ==
    LET shorter == IF Len(parent1) < Len(parent2) THEN parent1 ELSE parent2
        longer == IF Len(parent1) < Len(parent2) THEN parent2 ELSE parent1
    IN SubSeq(shorter, 1, crossover_point)
         \o SubSeq(longer, crossover_point + 1, Len(longer))

(* _crossover, lines 324-341, at crossover_point *)
Crossover(parent1, parent2, crossover_point) ==
    LET shorter == IF Len(parent1) # Len(parent2)
                   THEN (IF Len(parent1) < Len(parent2)
                         THEN parent1 ELSE parent2)
                   ELSE parent1
        longer == IF Len(parent1) # Len(parent2)
                  THEN SubSeq(IF Len(parent1) < Len(parent2)
                              THEN parent2 ELSE parent1, 1, Len(shorter))
                  ELSE parent2
    IN SubSeq(shorter, 1, crossover_point)
         \o SubSeq(longer, crossover_point + 1, Len(shorter))

(* _mutate, lines 343-352: each gene is kept or moved and clipped to [0,1] *)
Mutate(individual) == [1..Len(individual) -> Genes]

(* the children one pass of lines 226-229 can produce *)
Children(population, fitness_scores) ==
    UNION { Mutate(Crossover(parent1, parent2, crossover_point)) :
              <<parent1, parent2, crossover_point>> \in
                { t \in TournamentSelection(population, fitness_scores)
                          \X TournamentSelection(population, fitness_scores)
                          \X (1..(2 * MaxImpulses)) :
                    t[3] < Min(Len(t[1]), Len(t[2])) } }

NoIndividual == << >>

(* the calls of optimize_multi_impulse_trajectory with max_impulses = m *)
MultiImpulseCalls(m) ==
    [op : {"multi_impulse"}, pc : {"generation"},
     system : {y \in Systems : y.kind = "raise" \/ y.fraction[1] = 3},
     delta_v1 : {1}, delta_v2 : {0}, transfer_time : {0},
     max_time : {0}, i : {0}, segments : {<< >>}, total_delta_v : {0},
     total_fuel : {0}, max_impulses : {m},
     time_constraint : {0, ImpulseScale},
     population : [1..PopulationSize -> InitialIndividuals(m)],
     new_population : {<< >>}, generation : {0},
     best_fitness : {Inf}, best_individual : {NoIndividual},
     generations_without_improvement : {0}, decoded : {FALSE},
     eligible : {FALSE}, result : {None}]

TrajectoryCalls ==
    [op : {"hohmann"}, pc : {"call"}, system : Systems,
     delta_v1 : {0, 1, 2}, delta_v2 : {0, 1, 2}, transfer_time : {0, 2700},
     max_time : {0}, i : {0}, segments : {<< >>}, total_delta_v : {0},
     total_fuel : {0}, max_impulses : {0}, time_constraint : {0},
     population : {<< >>}, new_population : {<< >>}, generation : {0},
     best_fitness : {Inf}, best_individual : {NoIndividual},
     generations_without_improvement : {0}, decoded : {FALSE},
     eligible : {FALSE}, result : {None}]
    \cup
    [op : {"continuous_thrust"}, pc : {"segment"}, system : Systems,
     delta_v1 : {0}, delta_v2 : {0}, transfer_time : {0},
     max_time : {20 * NumSegments, 86400 * NumSegments},
     i : {0}, segments : {<< >>}, total_delta_v : {0},
     total_fuel : {0}, max_impulses : {0}, time_constraint : {0},
     population : {<< >>}, new_population : {<< >>}, generation : {0},
     best_fitness : {Inf}, best_individual : {NoIndividual},
     generations_without_improvement : {0}, decoded : {FALSE},
     eligible : {FALSE}, result : {None}]
    \cup
    MultiImpulseCalls(MaxImpulses)

InitTrajectory ==
    /\ lib \in TrajectoryCalls
    /\ mission_requirements \in {CHOOSE r \in MissionRequirementsSet : TRUE}
    /\ running = FALSE
    /\ paused = FALSE
    /\ current_metrics = NoMetrics
    /\ event_queue = << >>
    /\ alert_callbacks = << >>
    /\ optimization_history = << >>
    /\ optimization_times = << >>
    /\ convergence_history = << >>
    /\ constraint_violation_history = << >>
    /\ mon = << >>
    /\ opt = << >>
    /\ api = "ready"
    /\ cycle = 0

Finish(trajectory) ==
    [lib EXCEPT !.result = trajectory,
                !.pc = IF trajectory.kind = "raise" THEN "raised"
                       ELSE "returned"]

(* optimize_hohmann_transfer *)
HohmannCall ==
    /\ lib.op = "hohmann"
    /\ lib.pc = "call"
    /\ lib' = Finish(HohmannTransfer(lib.system, lib.delta_v1, lib.delta_v2,
                                     lib.transfer_time))
    /\ UNCHANGED session

(* _gradient_optimization, lines 261-288: one segment, for the delta-v the *)
(* propagation gives it                                                    *)
GradientSegment ==
    /\ lib.op = "continuous_thrust"
    /\ lib.pc = "segment"
    /\ lib.i < NumSegments
    /\ \E delta_v \in {0, 1, 2} :
         LET time_step == lib.max_time \div NumSegments
             consumption ==
                 CalculateFuelConsumption(lib.system, delta_v, AssumedMass)
         IN IF consumption.kind = "raise"
            THEN lib' = Finish(Raise)
            ELSE lib' = [lib EXCEPT
                   !.segments = Append(@, Segment(lib.i * time_step,
                                                  (lib.i + 1) * time_step,
                                                  delta_v,
                                                  consumption.fuel_mass)),
                   !.total_delta_v = @ + delta_v,
                   !.total_fuel = @ + consumption.fuel_mass,
                   !.i = @ + 1]
    /\ UNCHANGED session

(* _gradient_optimization, lines 290-297 *)
GradientReturn ==
    /\ lib.op = "continuous_thrust"
    /\ lib.pc = "segment"
    /\ lib.i = NumSegments
    /\ lib' = Finish(OptimizedTrajectory(lib.segments, lib.total_delta_v,
                                         lib.total_fuel, lib.max_time,
                                         "Gradient Optimization"))
    /\ UNCHANGED session

StopsAtLimit(generations_without_improvement) ==
    generations_without_improvement >= StallLimit

(* line 220: if generations_without_improvement > 50 *)
Converged(generations_without_improvement) ==
    generations_without_improvement > StallLimit

(* _genetic_algorithm_optimization, lines 207-221: one generation's        *)
(* evaluation                                                              *)
GAEvaluate ==
    /\ lib.op = "multi_impulse"
    /\ lib.pc = "generation"
    /\ LET fitness_scores ==
               [k \in 1..PopulationSize |->
                  Fitness(lib.population[k], lib.time_constraint)]
           min_fitness_idx ==
               CHOOSE k \in 1..PopulationSize :
                  /\ \A j \in 1..PopulationSize :
                       fitness_scores[k] <= fitness_scores[j]
                  /\ \A j \in 1..(k - 1) :
                       fitness_scores[j] > fitness_scores[k]
           improved == fitness_scores[min_fitness_idx] < lib.best_fitness
           stall == IF improved THEN 0
                    ELSE lib.generations_without_improvement + 1
       IN lib' = [lib EXCEPT
                    !.best_fitness =
                       IF improved THEN fitness_scores[min_fitness_idx] ELSE @,
                    !.best_individual =
                       IF improved THEN lib.population[min_fitness_idx] ELSE @,
                    !.generations_without_improvement = stall,
                    !.decoded = @ \/ \E k \in 1..PopulationSize :
                       IndividualToTrajectory(lib.population[k]).kind = "ok",
                    !.eligible = @ \/ \E k \in 1..PopulationSize :
                       fitness_scores[k] < Inf,
                    !.pc = IF Converged(stall) THEN "final" ELSE "breed"]
    /\ UNCHANGED session

(* lines 224-232: one child; the last one completes the new population *)
GABreed ==
    /\ lib.op = "multi_impulse"
    /\ lib.pc = "breed"
    /\ LET fitness_scores ==
               [k \in 1..PopulationSize |->
                  Fitness(lib.population[k], lib.time_constraint)]
       IN \E child \in Children(lib.population, fitness_scores) :
            IF Len(lib.new_population) + 1 < PopulationSize
            THEN lib' = [lib EXCEPT !.new_population = Append(@, child)]
            ELSE lib' = [lib EXCEPT
                           !.population = Append(lib.new_population, child),
                           !.new_population = << >>,
                           !.generation = @ + 1,
                           !.pc = IF lib.generation + 1 < MaxIterations
                                  THEN "generation" ELSE "final"]
    /\ UNCHANGED session

(* lines 234-241: the best individual decoded again, or the fallback *)
GAReturn ==
    /\ lib.op = "multi_impulse"
    /\ lib.pc = "final"
    /\ LET trajectory == IF lib.best_individual # NoIndividual
                         THEN IndividualToTrajectory(lib.best_individual)
                         ELSE None
       IN lib' = Finish(IF trajectory.kind = "ok" THEN trajectory
                        ELSE SimpleTwoImpulseTransfer(lib.system,
                                                      lib.delta_v1))
    /\ UNCHANGED session

NextTrajectory ==
    \/ HohmannCall
    \/ GradientSegment
    \/ GradientReturn
    \/ GAEvaluate
    \/ GABreed
    \/ GAReturn

SpecTrajectory == InitTrajectory /\ [][NextTrajectory]_vars

(* the genetic search alone, for individuals of one impulse; a call that  *)
(* can take a step takes it: the code runs to its end                     *)
InitSearch ==
    /\ lib \in MultiImpulseCalls(1)
    /\ mission_requirements \in {CHOOSE r \in MissionRequirementsSet : TRUE}
    /\ running = FALSE
    /\ paused = FALSE
    /\ current_metrics = NoMetrics
    /\ event_queue = << >>
    /\ alert_callbacks = << >>
    /\ optimization_history = << >>
    /\ optimization_times = << >>
    /\ convergence_history = << >>
    /\ constraint_violation_history = << >>
    /\ mon = << >>
    /\ opt = << >>
    /\ api = "ready"
    /\ cycle = 0

NextSearch == GAEvaluate \/ GABreed \/ GAReturn

LiveSpecSearch == InitSearch /\ [][NextSearch]_vars /\ WF_vars(NextSearch)

MissionEnded ==
    /\ lib.op = "optimize_mission"
    /\ lib.pc \in {"returned", "raised"}
    /\ lib.propulsion = "ok"

NotRaised == {t \in {lib.hohmann, lib.multi_impulse, lib.continuous_thrust} :
                t.kind = "ok"}

(* C15: optimize_mission calls exactly one strategy for a priority other   *)
(* than balanced: multi-impulse for fuel, Hohmann for time (its trajectory *)
(* has exactly 2 segments), continuous thrust for mass, and its trajectory *)
(* is that strategy's; for balanced it runs Hohmann, multi-impulse with 3  *)
(* impulses and continuous thrust, in this order, and when one of them did *)
(* not raise it returns a trajectory of one that did not raise, with no    *)
(* other such trajectory scoring 0.4 fuel/100 + 0.3 time/86400 + 0.3 n/10  *)
(* below it.                                                               *)
C15_Dispatch ==
    MissionEnded =>
      /\ lib.priority = "fuel" =>
           /\ lib.calls = << [method |-> "multi_impulse",
                              max_impulses |-> DefaultMaxImpulses] >>
           /\ lib.result = lib.multi_impulse
      /\ lib.priority = "time" =>
           /\ lib.calls = << [method |-> "hohmann", max_impulses |-> 0] >>
           /\ lib.result = lib.hohmann
           /\ lib.pc = "returned" => lib.result.segments = 2
      /\ lib.priority = "mass" =>
           /\ lib.calls = << [method |-> "continuous_thrust",
                              max_impulses |-> 0] >>
           /\ lib.result = lib.continuous_thrust
      /\ lib.priority = "balanced" =>
           /\ Len(lib.calls) >= 3
           /\ lib.calls[1] = [method |-> "hohmann", max_impulses |-> 0]
           /\ lib.calls[2] = [method |-> "multi_impulse", max_impulses |-> 3]
           /\ lib.calls[3] = [method |-> "continuous_thrust",
                              max_impulses |-> 0]
           /\ NotRaised # {} =>
                /\ lib.pc = "returned"
                /\ Len(lib.calls) = 3
                /\ lib.result \in NotRaised
                /\ \A t \in NotRaised :
                     4 * lib.result.fuel + 3 * lib.result.time
                         + 30 * lib.result.segments
                       <= 4 * t.fuel + 3 * t.time + 30 * t.segments

(* a balanced call in which no strategy raised and continuous thrust, the  *)
(* last one tried, was returned                                            *)
C15_Witness ==
    /\ MissionEnded
    /\ lib.priority = "balanced"
    /\ lib.pc = "returned"
    /\ lib.hohmann.kind = "ok"
    /\ lib.multi_impulse.kind = "ok"
    /\ lib.result = lib.continuous_thrust

(* C16, as stated: a balanced call in which the Hohmann, the multi-impulse *)
(* and the continuous-thrust attempts all raised returns the trajectory of *)
(* the Hohmann fallback.                                                   *)
C16_FallbackReturns ==
    (MissionEnded /\ lib.priority = "balanced" /\ NotRaised = {}) =>
      /\ lib.pc = "returned"
      /\ lib.result.method = "Hohmann Transfer"

RECURSIVE SumDeltaV(_)
(* sum(seg.delta_v for seg in trajectory.segments) *)
SumDeltaV(segs) ==
    IF segs = << >> THEN 0 ELSE Head(segs).delta_v + SumDeltaV(Tail(segs))

RECURSIVE SumFuel(_)
(* sum(seg.fuel_consumption for seg in trajectory.segments) *)
SumFuel(segs) ==
    IF segs = << >> THEN 0
    ELSE Head(segs).fuel_consumption + SumFuel(Tail(segs))

-----------------------------------------------------------------------------
(* PropulsionModel.calculate_multi_burn_consumption and                    *)
(* calculate_total_mission_consumption (fuel_models.py)                    *)

MaxBurns == 3
DefaultInitialMass == 1000    \* mission_profile[0].get('initial_mass', 1000.0)

BurnSequences == UNION { [1..n -> DeltaVs] : n \in 1..MaxBurns }

MassKept(current_mass, consumption) == current_mass

(* current_mass -= consumption.fuel_mass *)
MassAfter(current_mass, consumption) == current_mass - consumption.fuel_mass

(* a call of one of the two functions: the burns' delta-v (the phases'     *)
(* 'delta_v'), and the initial mass: satellite_mass, or the first phase's  *)
(* 'initial_mass' when it has the key                                      *)
BurnCalls ==
    [op : {"multi_burn"}, pc : {"burn"}, system : Systems,
     delta_v_sequence : BurnSequences, initial_mass : {0},
     satellite_mass : {0, 500, 1000}, has_initial_mass : {FALSE},
     i : {1}, current_mass : {0}, total_fuel : {0}, phases : {<< >>},
     final_mass : {0}]
    \cup
    [op : {"mission_consumption"}, pc : {"burn"}, system : Systems,
     delta_v_sequence : BurnSequences, initial_mass : {0, 500},
     satellite_mass : {0}, has_initial_mass : BOOLEAN,
     i : {1}, current_mass : {0}, total_fuel : {0}, phases : {<< >>},
     final_mass : {0}]

(* the mass a call starts from: lines 279 and 307 *)
StartMass(call) ==
    IF call.op = "multi_burn" THEN call.satellite_mass
    ELSE IF call.has_initial_mass THEN call.initial_mass
    ELSE DefaultInitialMass

InitBurns ==
    /\ lib \in { [call EXCEPT !.current_mass = StartMass(call)] :
                   call \in BurnCalls }
    /\ mission_requirements \in {CHOOSE r \in MissionRequirementsSet : TRUE}
    /\ running = FALSE
    /\ paused = FALSE
    /\ current_metrics = NoMetrics
    /\ event_queue = << >>
    /\ alert_callbacks = << >>
    /\ optimization_history = << >>
    /\ optimization_times = << >>
    /\ convergence_history = << >>
    /\ constraint_violation_history = << >>
    /\ mon = << >>
    /\ opt = << >>
    /\ api = "ready"
    /\ cycle = 0

(* one pass of the loop, lines 281-286 and 309-340; an exception of        *)
(* calculate_fuel_consumption leaves the function                          *)
Burn ==
    /\ lib.op \in {"multi_burn", "mission_consumption"}
    /\ lib.pc = "burn"
    /\ lib.i <= Len(lib.delta_v_sequence)
    /\ LET delta_v == lib.delta_v_sequence[lib.i]
           consumption ==
               CalculateFuelConsumption(lib.system, delta_v, lib.current_mass)
       IN IF consumption.kind = "raise"
          THEN lib' = [lib EXCEPT !.pc = "raised"]
          ELSE lib' = [lib EXCEPT
                 !.phases = Append(@,
                     [delta_v |-> delta_v,
                      fuel_mass |-> consumption.fuel_mass,
                      mass_before |-> lib.current_mass,
                      mass_after |-> lib.current_mass - consumption.fuel_mass]),
                 !.total_fuel = @ + consumption.fuel_mass,
                 !.current_mass = MassAfter(lib.current_mass, consumption),
                 !.i = @ + 1]
    /\ UNCHANGED session

(* lines 288 and 336-343 *)
BurnsReturn ==
    /\ lib.op \in {"multi_burn", "mission_consumption"}
    /\ lib.pc = "burn"
    /\ lib.i > Len(lib.delta_v_sequence)
    /\ lib' = [lib EXCEPT !.pc = "returned", !.final_mass = lib.current_mass]
    /\ UNCHANGED session

NextBurns == Burn \/ BurnsReturn

SpecBurns == InitBurns /\ [][NextBurns]_vars

RECURSIVE SumFuelMass(_)
SumFuelMass(phases) ==
    IF phases = << >> THEN 0
    ELSE Head(phases).fuel_mass + SumFuelMass(Tail(phases))

(* C19: in calculate_multi_burn_consumption and                            *)
(* calculate_total_mission_consumption each burn starts from the mass the  *)
(* previous one left (the first from the initial mass), the running mass   *)
(* is the initial mass minus the fuel of the burns made, which is the      *)
(* final_mass returned, no burn's fuel_mass exceeds the mass it started    *)
(* from, and the running mass is never negative.                           *)
C19_MassConserved ==
    (lib.op \in {"multi_burn", "mission_consumption"}) =>
      /\ \A k \in 1..Len(lib.phases) :
           /\ lib.phases[k].mass_before =
                (IF k = 1 THEN StartMass(lib)
                 ELSE lib.phases[k - 1].mass_after)
           /\ lib.phases[k].mass_after =
                lib.phases[k].mass_before - lib.phases[k].fuel_mass
           /\ lib.phases[k].fuel_mass <= lib.phases[k].mass_before
           /\ lib.phases[k].mass_after >= 0
      /\ lib.current_mass = StartMass(lib) - SumFuelMass(lib.phases)
      /\ lib.current_mass >= 0
      /\ lib.pc = "returned" =>
           /\ Len(lib.phases) = Len(lib.delta_v_sequence)
           /\ lib.final_mass = StartMass(lib) - SumFuelMass(lib.phases)
           /\ lib.total_fuel = SumFuelMass(lib.phases)

(* a mission of MaxBurns phases returned, with fuel burnt in the first and *)
(* in the last phase and a positive mass left                              *)
C19_Witness ==
    /\ lib.op = "mission_consumption"
    /\ lib.pc = "returned"
    /\ Len(lib.phases) = MaxBurns
    /\ lib.phases[1].fuel_mass > 0
    /\ lib.phases[MaxBurns].fuel_mass > 0
    /\ lib.final_mass > 0
    /\ lib.final_mass < StartMass(lib)

-----------------------------------------------------------------------------
(* FuelOptimizer.compare_propulsion_systems (fuel_optimizer.py)            *)

(* default_constraints, lines 56-63, the weights in hundredths *)
DefaultConstraints ==
    [max_impulses |-> DefaultMaxImpulses, max_burn_time |-> 3600,
     mass_weight |-> 100, power_weight |-> 10, time_weight |-> 1,
     efficiency_bonus |-> 50]

(* a system added with add_custom_propulsion_system *)
CustomSystem ==
    [name |-> "custom", dry_mass |-> 10, fuel_mass |-> 10,
     power_consumption |-> 0, efficiency |-> 50]

Catalogs == {Catalog, Append(Catalog, CustomSystem)}

(* how the body of the try goes for one system: the entry is built, or     *)
(* calculate_fuel_consumption raises, or _calculate_efficiency_score       *)
(* raises (a division by a zero limit)                                     *)
Evaluations == {"ok", "consumption_raises", "score_raises"}

NoComparison == [name \in {} |-> "none"]

EntryOmitted(comparison, system) == comparison

(* lines 252-261: the entry of a system that was evaluated *)
Entry(comparison, system) ==
    [name \in DOMAIN comparison \cup {system.name} |->
       IF name = system.name
       THEN [kind |-> "entry", propulsion_system |-> system]
       ELSE comparison[name]]

(* lines 263-267: the entry of a system whose evaluation raised *)
ErrorEntry(comparison, system) ==
    [name \in DOMAIN comparison \cup {system.name} |->
       IF name = system.name
       THEN [kind |-> "error", propulsion_system |-> system]
       ELSE comparison[name]]

CompareCalls ==
    UNION { [op : {"compare_propulsion_systems"}, pc : {"loop"},
             propulsion_systems : {catalog},
             default_constraints : {DefaultConstraints},
             evaluation : [1..Len(catalog) -> Evaluations],
             i : {1}, comparison : {NoComparison}] : catalog \in Catalogs }

InitCompare ==
    /\ lib \in CompareCalls
    /\ mission_requirements \in {CHOOSE r \in MissionRequirementsSet : TRUE}
    /\ running = FALSE
    /\ paused = FALSE
    /\ current_metrics = NoMetrics
    /\ event_queue = << >>
    /\ alert_callbacks = << >>
    /\ optimization_history = << >>
    /\ optimization_times = << >>
    /\ convergence_history = << >>
    /\ constraint_violation_history = << >>
    /\ mon = << >>
    /\ opt = << >>
    /\ api = "ready"
    /\ cycle = 0

(* lines 242-267: one system of the catalog *)
CompareSystem ==
    /\ lib.op = "compare_propulsion_systems"
    /\ lib.pc = "loop"
    /\ lib.i <= Len(lib.propulsion_systems)
    /\ LET system == lib.propulsion_systems[lib.i]
       IN lib' = [lib EXCEPT
                    !.comparison = IF lib.evaluation[lib.i] = "ok"
                                   THEN Entry(@, system)
                                   ELSE ErrorEntry(@, system),
                    !.i = @ + 1]
    /\ UNCHANGED session

(* line 269 *)
CompareReturn ==
    /\ lib.op = "compare_propulsion_systems"
    /\ lib.pc = "loop"
    /\ lib.i > Len(lib.propulsion_systems)
    /\ lib' = [lib EXCEPT !.pc = "returned"]
    /\ UNCHANGED session

NextCompare == CompareSystem \/ CompareReturn

SpecCompare == InitCompare /\ [][NextCompare]_vars

(* C20: the result of compare_propulsion_systems has one entry for every   *)
(* system of the catalog and no other, an error entry for a system whose   *)
(* evaluation raised and a full entry otherwise, each holding its system,  *)
(* and no step of the call changes the catalog or the default constraints. *)
C20_TotalAndReadOnly ==
    /\ [](  (lib.op = "compare_propulsion_systems" /\ lib.pc = "returned") =>
              /\ DOMAIN lib.comparison =
                   {lib.propulsion_systems[k].name :
                      k \in 1..Len(lib.propulsion_systems)}
              /\ \A k \in 1..Len(lib.propulsion_systems) :
                   LET entry ==
                         lib.comparison[lib.propulsion_systems[k].name]
                   IN /\ entry.propulsion_system = lib.propulsion_systems[k]
                      /\ entry.kind = (IF lib.evaluation[k] = "ok"
                                       THEN "entry" ELSE "error") )
    /\ [][ lib.op = "compare_propulsion_systems" =>
             /\ lib'.propulsion_systems = lib.propulsion_systems
             /\ lib'.default_constraints = lib.default_constraints ]_vars

(* a comparison over the four seeded systems returned with an error entry  *)
(* next to a full one                                                      *)
C20_Witness ==
    /\ lib.op = "compare_propulsion_systems"
    /\ lib.pc = "returned"
    /\ Len(lib.propulsion_systems) = 4
    /\ lib.comparison["ion_thruster"].kind = "error"
    /\ lib.comparison["monopropellant"].kind = "entry"

-----------------------------------------------------------------------------
(* FuelOptimizer.optimize_constellation_deployment (fuel_optimizer.py).    *)
(* Angles are in degrees where the configuration gives them and in         *)
(* thousandths of a radian in orbital elements; altitudes in km.           *)

MaxSatellites == 3
DefaultDeploymentAltitude == 500     \* .get('deployment_altitude', 500.0)
FullCircle == 360                    \* 360.0 / num_satellites
MissionTargetAltitude == 800         \* mission_requirements.target_altitude

Absent == -1

(* np.radians *)
Radians(degrees) == (degrees * 17453) \div 1000

(* _create_target_elements: a circular orbit with the node at 0.0 *)
CreateTargetElements(altitude) ==
    [altitude |-> altitude, longitude_of_ascending_node |-> 0]

NoElements == [altitude |-> 0, longitude_of_ascending_node |-> 0]

(* dict.get(key, default) for a key that may be absent *)
Get(value, default) == IF value = Absent THEN default ELSE value

ConstellationCalls ==
    [op : {"optimize_constellation_deployment"}, pc : {"config"},
     num_satellites : {Absent} \cup (0..MaxSatellites),
     deployment_altitude : {Absent, 400},
     spacing_angle : {Absent, 0, 90},
     mission : {"ok", "raise"},
     n : {0}, altitude : {0}, spacing : {0}, i : {0},
     target_elements : {NoElements}, results : {<< >>}]

InitConstellation ==
    /\ lib \in ConstellationCalls
    /\ mission_requirements \in {CHOOSE r \in MissionRequirementsSet : TRUE}
    /\ running = FALSE
    /\ paused = FALSE
    /\ current_metrics = NoMetrics
    /\ event_queue = << >>
    /\ alert_callbacks = << >>
    /\ optimization_history = << >>
    /\ optimization_times = << >>
    /\ convergence_history = << >>
    /\ constraint_violation_history = << >>
    /\ mon = << >>
    /\ opt = << >>
    /\ api = "ready"
    /\ cycle = 0

(* lines 155-157: the default of spacing_angle, 360.0 / num_satellites, is *)
(* evaluated whether or not the key is present                             *)
ConstellationConfig ==
    /\ lib.op = "optimize_constellation_deployment"
    /\ lib.pc = "config"
    /\ LET num_satellites == Get(lib.num_satellites, 1)
       IN IF num_satellites = 0
          THEN lib' = [lib EXCEPT !.pc = "raised"]
          ELSE lib' = [lib EXCEPT
                 !.n = num_satellites,
                 !.altitude = Get(lib.deployment_altitude,
                                  DefaultDeploymentAltitude),
                 !.spacing = Get(lib.spacing_angle,
                                 FullCircle \div num_satellites),
                 !.pc = "loop"]
    /\ UNCHANGED session

(* the result of the optimize_mission call of line 171: its target is the  *)
(* one optimize_mission creates at line 89 from the requirements           *)
OptimizeMission(initial_elements) ==
    [target_elements |-> CreateTargetElements(MissionTargetAltitude)]

(* lines 160-174: one satellite *)
ConstellationSatellite ==
    /\ lib.op = "optimize_constellation_deployment"
    /\ lib.pc = "loop"
    /\ lib.i < lib.n
    /\ LET created == CreateTargetElements(lib.altitude)
           target_elements ==
               [created EXCEPT !.longitude_of_ascending_node =
                                  @ + Radians(lib.i * lib.spacing)]
       IN IF lib.mission = "raise"
          THEN lib' = [lib EXCEPT !.target_elements = target_elements,
                                  !.pc = "raised"]
          ELSE lib' = [lib EXCEPT
                 !.target_elements = target_elements,
                 !.results = Append(@, OptimizeMission("initial_elements")),
                 !.i = @ + 1]
    /\ UNCHANGED session

(* line 176 *)
ConstellationReturn ==
    /\ lib.op = "optimize_constellation_deployment"
    /\ lib.pc = "loop"
    /\ lib.i = lib.n
    /\ lib' = [lib EXCEPT !.pc = "returned"]
    /\ UNCHANGED session

NextConstellation ==
    \/ ConstellationConfig
    \/ ConstellationSatellite
    \/ ConstellationReturn

SpecConstellation == InitConstellation /\ [][NextConstellation]_vars

(* C21, as stated: a returned deployment has num_satellites results and    *)
(* the i-th one comes from an optimize_mission run whose target orbit has  *)
(* its ascending node at i x spacing_angle.                                *)
C21_NodeOffsetPerSatellite ==
    (lib.op = "optimize_constellation_deployment" /\ lib.pc = "returned") =>
      /\ Len(lib.results) = lib.n
      /\ \A k \in 1..Len(lib.results) :
           lib.results[k].target_elements.longitude_of_ascending_node =
             Radians((k - 1) * lib.spacing)

-----------------------------------------------------------------------------
(* Construction of MissionRequirements (fuel_optimizer.py) and of          *)
(* PropulsionSystem (fuel_models.py).  Efficiency is in hundredths.        *)

PriorityArguments == Priorities \cup {"Fuel", "cost", ""}

EfficiencyArguments ==
    [kind : {"number"}, value : {-1, 0, 50, 100, 101}]
      \cup {[kind |-> "nan", value |-> 0]}

AnyPriority(priority) == TRUE

(* __post_init__, line 34 *)
ValidPriority(priority) ==
    priority \in {"fuel", "time", "mass", "balanced"}

(* __post_init__, line 40: 0 <= self.efficiency <= 1; a comparison with    *)
(* NaN is false                                                            *)
ValidEfficiency(efficiency) ==
    /\ efficiency.kind = "number" /\ 0 <= efficiency.value
    /\ efficiency.kind = "number" /\ efficiency.value <= 100

NotConstructed == [optimization_priority |-> "", max_fuel_mass |-> 0,
                   max_power |-> 0,
                   efficiency |-> [kind |-> "nan", value |-> 0],
                   thrust |-> 0, dry_mass |-> 0]

Constructions ==
    [op : {"MissionRequirements"}, pc : {"post_init"},
     optimization_priority : PriorityArguments,
     max_fuel_mass : {-1, 0, 10}, max_power : {-1, 0, 1000},
     efficiency : {[kind |-> "nan", value |-> 0]},
     thrust : {0}, dry_mass : {0}, object : {NotConstructed}]
    \cup
    [op : {"PropulsionSystem"}, pc : {"post_init"},
     optimization_priority : {""}, max_fuel_mass : {0}, max_power : {0},
     efficiency : EfficiencyArguments,
     thrust : {-1, 0, 1}, dry_mass : {-1, 0, 25},
     object : {NotConstructed}]

InitConstruction ==
    /\ lib \in Constructions
    /\ mission_requirements \in {CHOOSE r \in MissionRequirementsSet : TRUE}
    /\ running = FALSE
    /\ paused = FALSE
    /\ current_metrics = NoMetrics
    /\ event_queue = << >>
    /\ alert_callbacks = << >>
    /\ optimization_history = << >>
    /\ optimization_times = << >>
    /\ convergence_history = << >>
    /\ constraint_violation_history = << >>
    /\ mon = << >>
    /\ opt = << >>
    /\ api = "ready"
    /\ cycle = 0

(* the fields the generated __init__ assigns before __post_init__ runs *)
Assigned ==
    [optimization_priority |-> lib.optimization_priority,
     max_fuel_mass |-> lib.max_fuel_mass, max_power |-> lib.max_power,
     efficiency |-> lib.efficiency, thrust |-> lib.thrust,
     dry_mass |-> lib.dry_mass]

(* MissionRequirements.__post_init__, lines 33-35 *)
MissionRequirementsPostInit ==
    /\ lib.op = "MissionRequirements"
    /\ lib.pc = "post_init"
    /\ lib' = IF ValidPriority(lib.optimization_priority)
              THEN [lib EXCEPT !.pc = "constructed", !.object = Assigned]
              ELSE [lib EXCEPT !.pc = "raised"]
    /\ UNCHANGED session

(* PropulsionSystem.__post_init__, lines 39-41 *)
PropulsionSystemPostInit ==
    /\ lib.op = "PropulsionSystem"
    /\ lib.pc = "post_init"
    /\ lib' = IF ValidEfficiency(lib.efficiency)
              THEN [lib EXCEPT !.pc = "constructed", !.object = Assigned]
              ELSE [lib EXCEPT !.pc = "raised"]
    /\ UNCHANGED session

NextConstruction == MissionRequirementsPostInit \/ PropulsionSystemPostInit

SpecConstruction == InitConstruction /\ [][NextConstruction]_vars

(* C22: constructing a MissionRequirements fails exactly when its          *)
(* optimization_priority is not one of fuel, time, mass, balanced, and     *)
(* constructing a PropulsionSystem fails exactly when its efficiency is    *)
(* not a number in [0, 1]; an object that is constructed holds the         *)
(* arguments unchanged.                                                    *)
C22_RejectedAtConstruction ==
    /\ (lib.op = "MissionRequirements" /\ lib.pc # "post_init") =>
         /\ lib.pc = "raised" <=>
              lib.optimization_priority \notin
                {"fuel", "time", "mass", "balanced"}
         /\ lib.pc = "constructed" =>
              /\ lib.object.optimization_priority = lib.optimization_priority
              /\ lib.object.max_fuel_mass = lib.max_fuel_mass
              /\ lib.object.max_power = lib.max_power
    /\ (lib.op = "PropulsionSystem" /\ lib.pc # "post_init") =>
         /\ lib.pc = "raised" <=>
              \/ lib.efficiency.kind = "nan"
              \/ lib.efficiency.value < 0
              \/ lib.efficiency.value > 100
         /\ lib.pc = "constructed" =>
              /\ lib.object.efficiency = lib.efficiency
              /\ lib.object.thrust = lib.thrust
              /\ lib.object.dry_mass = lib.dry_mass

(* a priority that differs from an accepted one only in case was rejected *)
C22_Witness ==
    /\ lib.op = "MissionRequirements"
    /\ lib.pc = "raised"
    /\ lib.optimization_priority = "Fuel"

(* C23, as stated: the genetic search stops in the generation that is the  *)
(* StallLimit-th in a row without improvement of the best fitness.         *)
C23_OriginalStopsAtLimit ==
    [][(lib.op = "multi_impulse" /\ lib.pc = "generation"
          /\ lib'.generations_without_improvement = StallLimit)
         => lib'.pc = "final"]_vars

(* C23: the genetic search always terminates: it evaluates at most         *)
(* MaxIterations generations, an evaluation ends the search exactly when   *)
(* it is more than StallLimit generations in a row that brought no         *)
(* improvement (so with every fitness infinite it ends in generation       *)
(* StallLimit + 1), and every call returns or raises.                      *)
C23_Terminates ==
    /\ [](lib.op = "multi_impulse" =>
            /\ lib.generation <= MaxIterations
            /\ lib.pc \in {"generation", "breed"} =>
                 lib.generation < MaxIterations)
    /\ [][(lib.op = "multi_impulse" /\ lib.pc = "generation") =>
            /\ lib'.pc = "final" <=>
                 lib'.generations_without_improvement > StallLimit
            /\ (lib.best_fitness = Inf /\ lib'.best_fitness = Inf) =>
                 lib'.generations_without_improvement = lib.generation + 1]_vars
    /\ (lib.op = "multi_impulse") ~> (lib.pc \in {"returned", "raised"})

(* the search ended by the stall test, in generation StallLimit + 1, with  *)
(* every fitness infinite                                                  *)
C23_Witness ==
    /\ lib.op = "multi_impulse"
    /\ lib.pc = "final"
    /\ lib.best_fitness = Inf
    /\ lib.generation = StallLimit
    /\ lib.generations_without_improvement = StallLimit + 1

(* the violation set, and whether a monitoring thread has just run         *)
(* _check_constraints                                                      *)
ViolationSet(metrics) ==
    {metrics.constraint_violations[k] :
       k \in 1..Len(metrics.constraint_violations)}

(* C24: when a monitoring cycle has updated the metrics and run the        *)
(* constraint check, the violation set is exactly the set of the five      *)
(* conditions that hold for the metrics: FUEL_LOW iff fuel < min_fuel_mass,*)
(* POWER_LOW iff power < min_power_level, ORBITAL_DECAY iff altitude < 100 *)
(* km, COLLISION_RISK iff risk > max_collision_probability, THERMAL_LIMIT  *)
(* iff temperature > max_temperature, each at most once, whatever the      *)
(* optimization status is, which the check leaves as it was.               *)
C24_ViolationsMatchMetrics ==
    [][\A g \in 1..Len(mon) :
         (/\ mon[g].pc = "m_body" /\ mon'[g].pc = "m_events"
          /\ current_metrics # NoMetrics) =>
           /\ ViolationSet(current_metrics') =
                {v \in ConstraintViolation :
                   \/ v = "fuel_low" /\ current_metrics'.fuel < MinFuelMass
                   \/ v = "power_low"
                        /\ current_metrics'.power < MinPowerLevel
                   \/ v = "orbital_decay" /\ current_metrics'.altitude < 100
                   \/ v = "collision_risk"
                        /\ current_metrics'.risk > MaxCollisionProbability
                   \/ v = "thermal_limit"
                        /\ current_metrics'.temperature > MaxTemperature}
           /\ Len(current_metrics'.constraint_violations) =
                Cardinality(ViolationSet(current_metrics'))
           /\ current_metrics'.optimization_status =
                current_metrics.optimization_status]_vars

(* the second check of a run found the temperature over its limit while    *)
(* the status was Converged, and removed the FUEL_LOW the first check had  *)
(* set and recorded                                                        *)
C24_Witness ==
    /\ cycle = 2
    /\ \E g \in 1..Len(mon) : mon[g].pc = "m_events"
    /\ current_metrics # NoMetrics
    /\ current_metrics.optimization_status = "converged"
    /\ current_metrics.constraint_violations = << "thermal_limit" >>
    /\ current_metrics.fuel >= MinFuelMass
    /\ \E k \in 1..Len(constraint_violation_history) :
         constraint_violation_history[k].violation = "fuel_low"

(* the fitness scores of line 207 for the population of the call *)
FitnessScores ==
    [k \in 1..Len(lib.population) |->
       Fitness(lib.population[k], lib.time_constraint)]

EvenLength(individual) ==
    Len(individual) >= 2 /\ Len(individual) % 2 = 0

(* C25: a child of two parents has exactly the length of the shorter       *)
(* parent, also after mutation; so no individual of the next population,   *)
(* complete or in the making, is longer than the longest individual of the *)
(* population it is bred from, and every individual has an even length of  *)
(* at least 2.                                                             *)
C25_ChildHasShorterLength ==
    /\ [](lib.op = "multi_impulse" =>
            /\ \A k \in 1..Len(lib.population) :
                 EvenLength(lib.population[k])
            /\ \A k \in 1..Len(lib.new_population) :
                 EvenLength(lib.new_population[k])
            /\ lib.pc = "breed" =>
                 \A parent1, parent2 \in
                      TournamentSelection(lib.population, FitnessScores) :
                    \A crossover_point \in
                         1..(Min(Len(parent1), Len(parent2)) - 1) :
                       \A child \in Mutate(Crossover(parent1, parent2,
                                                     crossover_point)) :
                          Len(child) = Min(Len(parent1), Len(parent2)))
    /\ [][lib.op = "multi_impulse" =>
            /\ \A k \in 1..Len(lib'.population) :
                 \E j \in 1..Len(lib.population) :
                    Len(lib'.population[k]) <= Len(lib.population[j])
            /\ \A k \in 1..Len(lib'.new_population) :
                 \E j \in 1..Len(lib.population) :
                    Len(lib'.new_population[k]) <= Len(lib.population[j])]_vars

(* a child of one impulse bred from a parent of one impulse and a parent   *)
(* of two, its second gene taken from the truncated longer parent          *)
C25_Witness ==
    /\ lib.op = "multi_impulse"
    /\ lib.pc = "breed"
    /\ lib.new_population # << >>
    /\ \E parent1, parent2 \in
            TournamentSelection(lib.population, FitnessScores) :
          /\ Len(parent1) = 2
          /\ Len(parent2) = 4
          /\ lib.new_population[Len(lib.new_population)] =
               Crossover(parent1, parent2, 1)
          /\ lib.new_population[Len(lib.new_population)] # parent1

(* the loop threads that have not ended (Thread.is_alive()) *)
LiveMonitoring == {g \in 1..Len(mon) : mon[g].pc # "done"}

LiveOptimization == {g \in 1..Len(opt) : opt[g].pc # "done"}

(* C26, as stated: whatever start, stop, pause and resume calls have been  *)
(* made, the session has at most one live monitoring loop and at most one  *)
(* live optimization loop                                                  *)
C26_AtMostOneLoopOfEachKind ==
    /\ Cardinality(LiveMonitoring) <= 1
    /\ Cardinality(LiveOptimization) <= 1

(* C27, as stated: the violation set read for the priority of an attempt   *)
(* (line 365), the one counted in its performance score (line 408) and the *)
(* one counted in its history entry (line 384) are the same set: when the  *)
(* attempt stores its entry, the priority is "fuel" exactly when the entry *)
(* counts a violation, and the score is the one of the entry's count       *)
C27_OneViolationSetPerAttempt ==
    [][\A g \in 1..Len(opt) :
         (/\ opt[g].pc = "o_store"
          /\ Len(optimization_history') = Len(optimization_history) + 1) =>
            LET entry == optimization_history'[Len(optimization_history')]
            IN /\ entry.priority = "fuel" <=> entry.constraints_violated > 0
               /\ current_metrics.performance_score =
                    ViolationKinds - entry.constraints_violated]_vars

(* no optimization thread is inside an attempt *)
BetweenAttempts == \A g \in 1..Len(opt) : opt[g].pc \in {"o_loop", "done"}

(* C28, as stated: between attempts optimization_history and               *)
(* optimization_times are as long as convergence_history has True         *)
(* entries; an attempt that ends appends exactly one entry to              *)
(* convergence_history, True on success and False on failure; and an       *)
(* attempt that fails has changed neither last_optimization_time nor       *)
(* performance_score                                                       *)
C28_AttemptTracking ==
    [][/\ BetweenAttempts' =>
            /\ Len(optimization_history') = Len(optimization_times')
            /\ Len(optimization_times') = CountIn(convergence_history', TRUE)
       /\ \A g \in 1..Len(opt) :
            /\ (opt[g].pc \in {"o_store", "o_failed"}
                  /\ opt'[g].pc \notin {"o_store", "o_failed"}) =>
                 convergence_history' =
                    Append(convergence_history, opt[g].pc = "o_store")
            /\ (opt[g].pc = "o_run" /\ opt'[g].pc = "o_failed") =>
                 /\ current_metrics'.elapsed = current_metrics.elapsed
                 /\ current_metrics'.performance_score =
                      current_metrics.performance_score]_vars

-----------------------------------------------------------------------------
(* FuelOptimizer.optimize_mission, the selection of the propulsion system  *)
(* (fuel_optimizer.py, lines 79-96)                                        *)

(* the budgets of the MissionRequirements of the calls followed: a power   *)
(* budget below and above the electric systems' draw, a fuel budget        *)
(* between the consumptions below                                          *)
MissionBudgets == [max_power : {1000, 5000}, max_fuel_mass : {10, 30}]

(* custom_constraints: None, or a dictionary with one of the checked keys *)
CustomConstraints ==
    [keys : {{}, {"max_power"}, {"max_fuel_mass"}},
     max_power : {2000}, max_fuel_mass : {10}]

(* what calculate_fuel_consumption does for one system at the estimated    *)
(* delta-v: burn times below and above the default max_burn_time           *)
SelectionConsumptions ==
    {[kind |-> "raise", fuel_mass |-> 0, burn_time |-> 0],
     [kind |-> "nan", fuel_mass |-> 0, burn_time |-> 0]}
      \cup [kind : {"ok"}, fuel_mass : {5, 20}, burn_time : {10, 4000}]

NoConstraints ==
    [keys |-> {}, max_total_mass |-> 0, max_power |-> 0,
     max_burn_time |-> 0, max_fuel_mass |-> 0]

(* line 80: {**self.default_constraints, **(custom_constraints or {})};    *)
(* of the keys _check_constraints looks at, the defaults hold              *)
(* max_burn_time only                                                      *)
MergedConstraints(custom_constraints) ==
    [keys |-> {"max_burn_time"} \cup custom_constraints.keys,
     max_total_mass |-> 0,
     max_power |-> custom_constraints.max_power,
     max_burn_time |-> DefaultConstraints.max_burn_time,
     max_fuel_mass |-> custom_constraints.max_fuel_mass]

SelectionCalls ==
    [op : {"calculate_optimal_propulsion"}, pc : {"merge"},
     mission : MissionBudgets,
     custom_constraints : CustomConstraints,
     constraints : {NoConstraints},
     consumption : [1..Len(Catalog) -> SelectionConsumptions],
     i : {1}, best : {0}, best_score : {0}]

InitSelection ==
    /\ lib \in SelectionCalls
    /\ mission_requirements \in {CHOOSE r \in MissionRequirementsSet : TRUE}
    /\ running = FALSE
    /\ paused = FALSE
    /\ current_metrics = NoMetrics
    /\ event_queue = << >>
    /\ alert_callbacks = << >>
    /\ optimization_history = << >>
    /\ optimization_times = << >>
    /\ convergence_history = << >>
    /\ constraint_violation_history = << >>
    /\ mon = << >>
    /\ opt = << >>
    /\ api = "ready"
    /\ cycle = 0

(* optimize_mission, lines 80 and 93-95: the constraints are merged and    *)
(* handed to calculate_optimal_propulsion with the estimated delta-v and   *)
(* max_total_mass as the satellite mass                                    *)
SelectionMerge ==
    /\ lib.op = "calculate_optimal_propulsion"
    /\ lib.pc = "merge"
    /\ lib' = [lib EXCEPT
                 !.constraints = MergedConstraints(lib.custom_constraints),
                 !.pc = "loop"]
    /\ UNCHANGED session

NextSelection == SelectionMerge \/ PropulsionStep \/ PropulsionReturn

SpecSelection == InitSelection /\ [][NextSelection]_vars

(* C29, as stated: the propulsion system optimize_mission has selected     *)
(* draws no more power than the mission's max_power and needs, for the     *)
(* estimated delta-v, no more fuel than the mission's max_fuel_mass        *)
C29_SelectionWithinBudgets ==
    (lib.op = "calculate_optimal_propulsion" /\ lib.pc = "returned"
       /\ "mission" \in DOMAIN lib) =>
       /\ Catalog[lib.best].power_consumption <= lib.mission.max_power
       /\ lib.consumption[lib.best].fuel_mass <= lib.mission.max_fuel_mass

-----------------------------------------------------------------------------
(* RealTimeOptimizer.get_optimization_history and                          *)
(* get_constraint_violation_history (realtime_optimizer.py, lines 443-449) *)

MaxHistory == 3               \* entries in a history list
MaxLimit == 4                 \* the limit argument

(* the history lists: entries numbered in append order *)
Histories == {[k \in 1..n |-> k] : n \in 0..MaxHistory}

(* Python's list[start:]: a negative start counts from the end, and either *)
(* is clamped to the list                                                  *)
SliceFrom(list, start) ==
    LET first == IF start < 0
                 THEN (IF Len(list) + start < 0 THEN 0 ELSE Len(list) + start)
                 ELSE Min(start, Len(list))
    IN SubSeq(list, first + 1, Len(list))

(* history[-limit:] if history else []; -limit is 0 when limit is 0 *)
RecentHistory(history, limit) ==
    IF history # << >> THEN SliceFrom(history, 0 - limit) ELSE << >>

HistoryCalls ==
    [op : {"get_optimization_history", "get_constraint_violation_history"},
     pc : {"call"}, limit : 0..MaxLimit, result : {<< >>}]

InitHistory ==
    /\ lib \in HistoryCalls
    /\ mission_requirements \in {CHOOSE r \in MissionRequirementsSet : TRUE}
    /\ running = FALSE
    /\ paused = FALSE
    /\ current_metrics = NoMetrics
    /\ event_queue = << >>
    /\ alert_callbacks = << >>
    /\ optimization_history \in Histories
    /\ optimization_times = [k \in 1..Len(optimization_history) |-> "t"]
    /\ convergence_history = [k \in 1..Len(optimization_history) |-> TRUE]
    /\ constraint_violation_history \in Histories
    /\ mon = << >>
    /\ opt = << >>
    /\ api = "ready"
    /\ cycle = 0

(* get_optimization_history, lines 443-445 *)
GetOptimizationHistory ==
    /\ lib.op = "get_optimization_history"
    /\ lib.pc = "call"
    /\ lib' = [lib EXCEPT
                 !.result = RecentHistory(optimization_history, lib.limit),
                 !.pc = "returned"]
    /\ UNCHANGED session

(* get_constraint_violation_history, lines 447-449 *)
GetConstraintViolationHistory ==
    /\ lib.op = "get_constraint_violation_history"
    /\ lib.pc = "call"
    /\ lib' = [lib EXCEPT
                 !.result = RecentHistory(constraint_violation_history,
                                          lib.limit),
                 !.pc = "returned"]
    /\ UNCHANGED session

NextHistory == GetOptimizationHistory \/ GetConstraintViolationHistory

SpecHistory == InitHistory /\ [][NextHistory]_vars

(* the list a getter of the call reads *)
HistoryRead ==
    IF lib.op = "get_optimization_history"
    THEN optimization_history ELSE constraint_violation_history

(* C30, as stated: for every limit >= 0 a history getter returns at most   *)
(* limit entries: the last min(limit, n) entries of the n in the list, in  *)
(* append order; none for limit = 0                                        *)
C30_AtMostLimitMostRecent ==
    (lib.op \in {"get_optimization_history",
                 "get_constraint_violation_history"}
       /\ lib.pc = "returned") =>
       /\ Len(lib.result) <= lib.limit
       /\ lib.result =
            SubSeq(HistoryRead,
                   Len(HistoryRead) - Min(lib.limit, Len(HistoryRead)) + 1,
                   Len(HistoryRead))

=============================================================================
